---- MODULE Spec2Model ----
(***************************************************************************)
(* Name resolution of the Q# front end: compiler/qsc_frontend/src/resolve.rs *)
(*                                                                         *)
(* The GlobalTable builder, the Resolver (its fields, resolve_ty,          *)
(* resolve_term, with_scope, bind and its Visitor methods) and the free    *)
(* function resolve with its helpers.                                      *)
(*                                                                         *)
(* Values.  Option<T> is a set with at most one element ({} is None).      *)
(* A HashMap is a function whose DOMAIN is the set of its keys.  A Span is *)
(* the source offset at which the node starts: the identifiers of one      *)
(* package do not overlap, so the derived order on (lo, hi) is the order   *)
(* of the offsets.                                                         *)
(***************************************************************************)
EXTENDS Integers, Sequences, FiniteSets, TLC

VARIABLES
    resolutions,   \* Resolver.resolutions / GlobalTable.resolutions: NodeId -> DefId
    tys,           \* tys:   namespace -> (name -> DefId)
    terms,         \* terms: namespace -> (name -> DefId)
    opens,         \* Resolver.opens: alias -> (namespace -> Span)
    namespace,     \* Resolver.namespace
    locals,        \* Resolver.locals: the lexical scope stack, innermost last
    errors,        \* Resolver.errors
    panic,         \* "" while running, else the message of the failed assert!/expect
    stack,         \* the visitor's call stack: one frame per construct being visited
    nextId,        \* the next NodeId the walked tree hands out
    tree,          \* what the walked tree holds so far (its path occurrences and open items)
    last,          \* the resolve_ty / resolve_term / path call just made, NoCall otherwise
    table_package, \* GlobalTable.package while the tables are built, Moved afterwards
    scanner        \* the parser's Scanner while the source is parsed, Dropped afterwards

vars == <<resolutions, tys, terms, opens, namespace, locals, errors, panic, stack,
          nextId, tree, last, table_package, scanner>>

----------------------------------------------------------------------------
(* Bounds of the model *)

\* open directives of one namespace block
MaxOpens == 3
\* declarations drawn for one resolve call: items + open directives + scopes
MaxInput == 5
\* depth of the lexical scope stack drawn for one resolve call
MaxScopes == 2
\* most items drawn for the symbol tables (in the build: for each package)
MaxItems == 2

----------------------------------------------------------------------------
(* Data *)

PRELUDE == <<"Microsoft.Quantum.Canon", "Microsoft.Quantum.Core", "Microsoft.Quantum.Intrinsic">>

Local == [kind |-> "Local", id |-> 0]
\* the builder is gone: into_resolver has taken its tables
Moved == [kind |-> "Moved", id |-> 0]
\* the scanner is gone: the source has been parsed
Dropped == [kind |-> "Dropped"]
Extern(p) == [kind |-> "Extern", id |-> p]
DefId(package, node) == [package |-> package, node |-> node]

NotFound(name, span) == [kind |-> "NotFound", name |-> name, span |-> span]
Ambiguous(name, span, first, second) ==
    [kind |-> "Ambiguous", name |-> name, span |-> span, first |-> first, second |-> second]

Ok(id) == [tag |-> "Ok", id |-> id]
Err(e) == [tag |-> "Err", err |-> e]
Abort(msg) == [tag |-> "Panic", msg |-> msg]

EmptyMap == [k \in {} |-> k]
Get(map, k) == IF k \in DOMAIN map THEN {map[k]} ELSE {}
Insert(map, k, v) == [x \in DOMAIN map \cup {k} |-> IF x = k THEN v ELSE map[x]]
\* map.entry(outer).or_default().insert(k, v)
InsertEntry(map, outer, k, v) ==
    Insert(map, outer, Insert(IF outer \in DOMAIN map THEN map[outer] ELSE EmptyMap, k, v))
\* globals.get(namespace).and_then(|env| env.get(name))
Lookup(globals, ns, name) ==
    IF ns \in DOMAIN globals THEN Get(globals[ns], name) ELSE {}

\* Syntax nodes
Ident(id, name, span) == [id |-> id, name |-> name, span |-> span]
Path(id, qualifier, name, span) == [id |-> id, namespace |-> qualifier, name |-> name, span |-> span]

----------------------------------------------------------------------------
(* The free functions of resolve.rs *)

\* fn single: Some(x) when the iterator yields exactly one item, else None
single(xs) == IF Cardinality(xs) = 1 THEN xs ELSE {}

\* (mutant) the loop over the namespaces stops after the first one
resolve_implicit_opens_first_only(globals, namespaces, name) ==
    Lookup(globals, namespaces[1], name)

\* fn resolve_implicit_opens: the HashSet of the DefIds the listed namespaces bind to name
resolve_implicit_opens(globals, namespaces, name) ==
    UNION {Lookup(globals, namespaces[i], name) : i \in DOMAIN namespaces}

\* (mutant) one candidate per opened namespace that binds name, not one per DefId
resolve_explicit_opens_per_namespace(globals, open_namespaces, name) ==
    LET hits == {ns \in DOMAIN open_namespaces : Lookup(globals, ns, name) # {}}
    IN IF Cardinality(hits) <= 1
       THEN {[id \in {globals[ns][name] : ns \in hits} |->
                open_namespaces[CHOOSE ns \in hits : TRUE]]}
       ELSE {[k \in {<<globals[ns][name], ns>> : ns \in hits} |-> open_namespaces[k[2]]]}

\* (mutant) the span kept for a candidate is that of any opened namespace binding name
resolve_explicit_opens_any_span(globals, open_namespaces, name) ==
    LET hits == {ns \in DOMAIN open_namespaces : Lookup(globals, ns, name) # {}}
    IN [{globals[ns][name] : ns \in hits} -> {open_namespaces[ns] : ns \in hits}]

\* fn resolve_explicit_opens: the HashMap DefId -> Span of the opened namespaces
\* that bind name.  The loop walks a HashMap, whose order is unspecified, and a
\* later insert of the same DefId replaces the span: every map some order can
\* build is a possible result.
resolve_explicit_opens(globals, open_namespaces, name) ==
    LET hits == {ns \in DOMAIN open_namespaces : Lookup(globals, ns, name) # {}}
        ids == {globals[ns][name] : ns \in hits}
        spans == {open_namespaces[ns] : ns \in hits}
    IN {c \in [ids -> spans] :
          \A id \in ids : \E ns \in hits : globals[ns][name] = id /\ c[id] = open_namespaces[ns]}

\* (mutant) locals.iter() without rev(): the outermost binding wins
RECURSIVE find_local_outermost(_, _)
find_local_outermost(scopes, name) ==
    IF scopes = <<>> THEN {}
    ELSE LET env == scopes[1]
         IN IF name \in DOMAIN env THEN {env[name]}
            ELSE find_local_outermost(Tail(scopes), name)

\* locals.iter().rev().find_map(|env| env.get(name))
RECURSIVE find_local(_, _)
find_local(scopes, name) ==
    IF scopes = <<>> THEN {}
    ELSE LET env == scopes[Len(scopes)]
         IN IF name \in DOMAIN env THEN {env[name]}
            ELSE find_local(SubSeq(scopes, 1, Len(scopes) - 1), name)

\* (mutant) the spans are sorted in decreasing order
RECURSIVE sorted_values_decreasing(_)
sorted_values_decreasing(map) ==
    IF DOMAIN map = {} THEN <<>>
    ELSE LET k == CHOOSE k \in DOMAIN map : \A j \in DOMAIN map : map[k] >= map[j]
         IN <<map[k]>> \o sorted_values_decreasing([j \in DOMAIN map \ {k} |-> map[j]])

\* open_candidates.into_values().collect() followed by spans.sort()
RECURSIVE sorted_values(_)
sorted_values(map) ==
    IF DOMAIN map = {} THEN <<>>
    ELSE LET k == CHOOSE k \in DOMAIN map : \A j \in DOMAIN map : map[k] <= map[j]
         IN <<map[k]>> \o sorted_values([j \in DOMAIN map \ {k} |-> map[j]])

\* path.namespace.as_ref().map_or("", |i| &i.name)
qualifier_of(path) == IF path.namespace = {} THEN "" ELSE (CHOOSE i \in path.namespace : TRUE).name

\* (mutant) the prelude is consulted before the explicit opens are looked at
prelude_applies_before_opens(open_candidates, namespace_) == namespace_ = ""

\* (mutant) the prelude is consulted for qualified paths too
prelude_applies_to_qualified(open_candidates, namespace_) == DOMAIN open_candidates = {}

\* open_candidates.is_empty() && namespace.is_empty()
prelude_applies(open_candidates, namespace_) ==
    DOMAIN open_candidates = {} /\ namespace_ = ""

\* (mutant) for a qualified path the namespace named by the qualifier comes first
resolve_opened_global_first(globals, namespace_, name, span, open_candidates) ==
    LET candidates == resolve_implicit_opens(globals, PRELUDE, name)
        no_open == DOMAIN open_candidates = {}
        prelude == prelude_applies(open_candidates, namespace_)
    IN IF namespace_ # "" /\ Lookup(globals, namespace_, name) # {}
         THEN Ok(globals[namespace_][name])
       ELSE IF prelude /\ Cardinality(candidates) > 1
         THEN Abort("Ambiguity in prelude resolution.")
       ELSE IF prelude /\ single(candidates) # {}
         THEN Ok(CHOOSE id \in candidates : TRUE)
       ELSE IF no_open /\ Lookup(globals, namespace_, name) # {}
         THEN Ok(globals[namespace_][name])
       ELSE IF Cardinality(DOMAIN open_candidates) > 1
         THEN LET spans == sorted_values(open_candidates)
              IN Err(Ambiguous(name, span, spans[1], spans[2]))
       ELSE IF single(DOMAIN open_candidates) # {}
         THEN Ok(CHOOSE id \in DOMAIN open_candidates : TRUE)
       ELSE Err(NotFound(name, span))

\* resolve, from the prelude tier on, for one candidate map of the explicit opens
resolve_opened(globals, namespace_, name, span, open_candidates) ==
    LET candidates == resolve_implicit_opens(globals, PRELUDE, name)
        no_open == DOMAIN open_candidates = {}
        prelude == prelude_applies(open_candidates, namespace_)
    IN IF prelude /\ Cardinality(candidates) > 1
         THEN Abort("Ambiguity in prelude resolution.")
       ELSE IF prelude /\ single(candidates) # {}
         THEN Ok(CHOOSE id \in candidates : TRUE)
       ELSE IF no_open /\ Lookup(globals, namespace_, name) # {}
         THEN Ok(globals[namespace_][name])
       ELSE IF Cardinality(DOMAIN open_candidates) > 1
         THEN LET spans == sorted_values(open_candidates)
              IN Err(Ambiguous(name, span, spans[1], spans[2]))
       ELSE IF single(DOMAIN open_candidates) # {}
         THEN Ok(CHOOSE id \in DOMAIN open_candidates : TRUE)
       ELSE Err(NotFound(name, span))

\* (mutant) the explicit-open tier consults the opens under every alias
open_candidates_of_any_alias(globals, opens_, namespace_, name) ==
    LET opened == UNION {DOMAIN opens_[a] : a \in DOMAIN opens_}
        merged == [ns \in opened |-> opens_[CHOOSE a \in DOMAIN opens_ : ns \in DOMAIN opens_[a]][ns]]
    IN resolve_explicit_opens(globals, merged, name)

\* the explicit-open tier: opens.get(namespace).map(resolve_explicit_opens).unwrap_or_default()
open_candidates_of(globals, opens_, namespace_, name) ==
    IF namespace_ \in DOMAIN opens_
    THEN resolve_explicit_opens(globals, opens_[namespace_], name)
    ELSE {EmptyMap}

\* (mutant) an item of the parent namespace wins only when no open brings the name in
resolve_opens_shadow_parent(globals, opens_, parent, locals_, path) ==
    LET name == path.name.name
        namespace_ == qualifier_of(path)
        opened == open_candidates_of(globals, opens_, namespace_, name)
    IN IF namespace_ = "" /\ find_local(locals_, name) # {}
         THEN {Ok(CHOOSE id \in find_local(locals_, name) : TRUE)}
       ELSE IF namespace_ = "" /\ Lookup(globals, parent, name) # {} /\ opened = {EmptyMap}
         THEN {Ok(globals[parent][name])}
       ELSE {resolve_opened(globals, namespace_, name, path.span, c) : c \in opened}

\* fn resolve: the set of the results the call can return
resolve(globals, opens_, parent, locals_, path) ==
    LET name == path.name.name
        namespace_ == qualifier_of(path)
    IN IF namespace_ = "" /\ find_local(locals_, name) # {}
         THEN {Ok(CHOOSE id \in find_local(locals_, name) : TRUE)}
       ELSE IF namespace_ = "" /\ Lookup(globals, parent, name) # {}
         THEN {Ok(globals[parent][name])}
       ELSE {resolve_opened(globals, namespace_, name, path.span, c) :
                c \in open_candidates_of(globals, opens_, namespace_, name)}

----------------------------------------------------------------------------
(* GlobalTable: the builder of the symbol tables *)

\* an item of a namespace: kind is "Callable", "Ty", "Open" or "Err"; name is the
\* declared name (the opened namespace for "Open"); visibility and alias are Options
Item(kind, visibility, name, alias) ==
    [kind |-> kind, visibility |-> visibility, name |-> name, alias |-> alias]
Namespace(name, items) == [name |-> name, items |-> items]

\* GlobalTable::new
GlobalTable_new ==
    [resolutions |-> EmptyMap, tys |-> EmptyMap, terms |-> EmptyMap,
     package |-> Local, namespace |-> ""]

\* GlobalTable::set_package
set_package(g, package) == [g EXCEPT !.package = Extern(package)]

\* (mutant) the binding occurrence is recorded for the items of linked packages too
GlobalTable_visit_item_records_extern(g, item) ==
    IF g.package # Local /\ item.visibility = {"Internal"} THEN g
    ELSE LET id == DefId(g.package, item.name.id)
             res == Insert(g.resolutions, item.name.id, id)
         IN CASE item.kind = "Callable" ->
                   [g EXCEPT !.resolutions = res,
                             !.terms = InsertEntry(g.terms, g.namespace, item.name.name, id)]
              [] item.kind = "Ty" ->
                   [g EXCEPT !.resolutions = res,
                             !.tys = InsertEntry(g.tys, g.namespace, item.name.name, id),
                             !.terms = InsertEntry(g.terms, g.namespace, item.name.name, id)]
              [] OTHER -> g

\* (mutant) internal items of linked packages are not skipped
GlobalTable_visit_item_no_filter(g, item) ==
    LET id == DefId(g.package, item.name.id)
        res == IF g.package = Local THEN Insert(g.resolutions, item.name.id, id)
               ELSE g.resolutions
    IN CASE item.kind = "Callable" ->
              [g EXCEPT !.resolutions = res,
                        !.terms = InsertEntry(g.terms, g.namespace, item.name.name, id)]
         [] item.kind = "Ty" ->
              [g EXCEPT !.resolutions = res,
                        !.tys = InsertEntry(g.tys, g.namespace, item.name.name, id),
                        !.terms = InsertEntry(g.terms, g.namespace, item.name.name, id)]
         [] OTHER -> g

\* (mutant) a type declaration is bound in the type table only
GlobalTable_visit_item_ty_only(g, item) ==
    IF g.package # Local /\ item.visibility = {"Internal"} THEN g
    ELSE LET id == DefId(g.package, item.name.id)
             res == IF g.package = Local THEN Insert(g.resolutions, item.name.id, id)
                    ELSE g.resolutions
         IN CASE item.kind = "Callable" ->
                   [g EXCEPT !.resolutions = res,
                             !.terms = InsertEntry(g.terms, g.namespace, item.name.name, id)]
              [] item.kind = "Ty" ->
                   [g EXCEPT !.resolutions = res,
                             !.tys = InsertEntry(g.tys, g.namespace, item.name.name, id)]
              [] OTHER -> g

\* GlobalTable::visit_item
GlobalTable_visit_item(g, item) ==
    IF g.package # Local /\ item.visibility = {"Internal"} THEN g
    ELSE LET id == DefId(g.package, item.name.id)
             res == IF g.package = Local THEN Insert(g.resolutions, item.name.id, id)
                    ELSE g.resolutions
         IN CASE item.kind = "Callable" ->
                   [g EXCEPT !.resolutions = res,
                             !.terms = InsertEntry(g.terms, g.namespace, item.name.name, id)]
              [] item.kind = "Ty" ->
                   [g EXCEPT !.resolutions = res,
                             !.tys = InsertEntry(g.tys, g.namespace, item.name.name, id),
                             !.terms = InsertEntry(g.terms, g.namespace, item.name.name, id)]
              [] OTHER -> g

\* walk_namespace for the builder: every item in source order
RECURSIVE GlobalTable_walk_items(_, _)
GlobalTable_walk_items(g, items) ==
    IF items = <<>> THEN g
    ELSE GlobalTable_walk_items(GlobalTable_visit_item(g, Head(items)), Tail(items))

\* GlobalTable::visit_namespace
GlobalTable_visit_namespace(g, ns) ==
    [GlobalTable_walk_items([g EXCEPT !.namespace = ns.name.name], ns.items)
        EXCEPT !.namespace = ""]

\* walk_package for the builder: every namespace in source order
RECURSIVE GlobalTable_visit_package(_, _)
GlobalTable_visit_package(g, namespaces) ==
    IF namespaces = <<>> THEN g
    ELSE GlobalTable_visit_package(GlobalTable_visit_namespace(g, Head(namespaces)),
                                   Tail(namespaces))

\* (mutant) the loop stops at the first item that is not an open directive
RECURSIVE collect_opens_leading(_, _)
collect_opens_leading(table, items) ==
    IF items = <<>> \/ Head(items).kind # "Open" THEN table
    ELSE LET item == Head(items)
             alias == IF item.alias = {} THEN "" ELSE (CHOOSE a \in item.alias : TRUE).name
         IN collect_opens_leading(InsertEntry(table, alias, item.name.name, item.name.span),
                                  Tail(items))

\* the loop of Resolver::visit_namespace that fills the open table
RECURSIVE collect_opens(_, _)
collect_opens(table, items) ==
    IF items = <<>> THEN table
    ELSE LET item == Head(items)
             alias == IF item.alias = {} THEN "" ELSE (CHOOSE a \in item.alias : TRUE).name
         IN collect_opens(IF item.kind = "Open"
                            THEN InsertEntry(table, alias, item.name.name, item.name.span)
                            ELSE table,
                          Tail(items))

----------------------------------------------------------------------------
(* Resolver: its methods, as functions of the resolver's fields *)

\* GlobalTable::into_resolver
into_resolver(g) ==
    [resolutions |-> g.resolutions, tys |-> g.tys, terms |-> g.terms, opens |-> EmptyMap,
     namespace |-> "", locals |-> <<>>, errors |-> <<>>, panic |-> ""]

\* Resolver::reset_errors
reset_errors(r) == [r EXCEPT !.errors = <<>>]

\* Resolver::add_global_callable
add_global_callable(r, decl) ==
    LET id == DefId(Local, decl.name.id)
    IN [r EXCEPT !.resolutions = Insert(r.resolutions, decl.name.id, id),
                 !.terms = InsertEntry(r.terms, r.namespace, decl.name.name, id)]

\* (mutant) the Err arm does not push the error
record_result_drops_error(r, path, result) ==
    CASE result.tag = "Ok" -> [r EXCEPT !.resolutions = Insert(r.resolutions, path.id, result.id)]
      [] result.tag = "Err" -> r
      [] OTHER -> [r EXCEPT !.panic = result.msg]

\* the match of resolve_ty and resolve_term on the result of resolve
record_result(r, path, result) ==
    CASE result.tag = "Ok" -> [r EXCEPT !.resolutions = Insert(r.resolutions, path.id, result.id)]
      [] result.tag = "Err" -> [r EXCEPT !.errors = Append(r.errors, result.err)]
      [] OTHER -> [r EXCEPT !.panic = result.msg]

\* (mutant) resolve_ty hands the scopes to resolve as resolve_term does
resolve_ty_sees_locals(r, path) ==
    {record_result(r, path, result) :
        result \in resolve(r.tys, r.opens, r.namespace, r.locals, path)}

\* Resolver::resolve_ty: the resolver states the call can leave
resolve_ty(r, path) ==
    {record_result(r, path, result) :
        result \in resolve(r.tys, r.opens, r.namespace, <<>>, path)}

\* Resolver::resolve_term
resolve_term(r, path) ==
    {record_result(r, path, result) :
        result \in resolve(r.terms, r.opens, r.namespace, r.locals, path)}

\* Resolver::with_scope, entry: self.locals.push(mem::take(scope))
push_scope(r, scope) == [r EXCEPT !.locals = Append(r.locals, scope)]

\* (mutant) with_scope returns without popping the scope it pushed
pop_scope_keeps(r) == r

\* Resolver::with_scope, exit: self.locals.pop().expect(..)
pop_scope(r) ==
    IF r.locals = <<>> THEN [r EXCEPT !.panic = "scope symmetry should be preserved"]
    ELSE [r EXCEPT !.locals = SubSeq(r.locals, 1, Len(r.locals) - 1)]

\* patterns: Bind(name, ty), Discard(ty), Elided, Paren(pat), Tuple(pats)
PatBind(name, ty) == [kind |-> "Bind", name |-> name, ty |-> ty]
PatDiscard(ty) == [kind |-> "Discard", ty |-> ty]
PatElided == [kind |-> "Elided"]
PatParen(pat) == [kind |-> "Paren", pat |-> pat]
PatTuple(pats) == [kind |-> "Tuple", pats |-> pats]

\* Resolver::bind
RECURSIVE bind(_, _)
RECURSIVE bind_each(_, _)
\* (mutant) a name is bound in the outermost scope
bind_outermost(r, pat) ==
    CASE pat.kind = "Bind" ->
           IF r.locals = <<>> THEN [r EXCEPT !.panic = "binding should have environment"]
           ELSE LET id == DefId(Local, pat.name.id)
                IN [r EXCEPT !.resolutions = Insert(r.resolutions, pat.name.id, id),
                             !.locals[1] = Insert(@, pat.name.name, id)]
      [] pat.kind = "Paren" -> bind(r, pat.pat)
      [] pat.kind = "Tuple" -> bind_each(r, pat.pats)
      [] OTHER -> r
bind_each(r, pats) ==
    IF pats = <<>> \/ r.panic # "" THEN r
    ELSE bind_each(bind(r, Head(pats)), Tail(pats))
\* (mutant) a parenthesized pattern is passed over like a Discard
bind_skips_paren(r, pat) ==
    CASE pat.kind = "Bind" ->
           IF r.locals = <<>> THEN [r EXCEPT !.panic = "binding should have environment"]
           ELSE LET id == DefId(Local, pat.name.id)
                IN [r EXCEPT !.resolutions = Insert(r.resolutions, pat.name.id, id),
                             !.locals[Len(r.locals)] = Insert(@, pat.name.name, id)]
      [] pat.kind = "Tuple" -> bind_each(r, pat.pats)
      [] OTHER -> r
bind(r, pat) ==
    CASE pat.kind = "Bind" ->
           IF r.locals = <<>> THEN [r EXCEPT !.panic = "binding should have environment"]
           ELSE LET id == DefId(Local, pat.name.id)
                IN [r EXCEPT !.resolutions = Insert(r.resolutions, pat.name.id, id),
                             !.locals[Len(r.locals)] = Insert(@, pat.name.name, id)]
      [] pat.kind = "Paren" -> bind(r, pat.pat)
      [] pat.kind = "Tuple" -> bind_each(r, pat.pats)
      [] OTHER -> r

\* Resolver::visit_namespace up to the walk of the items
enter_namespace(r, ns) ==
    [r EXCEPT !.opens = collect_opens(EmptyMap, ns.items), !.namespace = ns.name.name]

\* Resolver::visit_namespace after the walk of the items
leave_namespace(r) == [r EXCEPT !.namespace = ""]

\* the resolver's fields, and the step that replaces them by r
Self ==
    [resolutions |-> resolutions, tys |-> tys, terms |-> terms, opens |-> opens,
     namespace |-> namespace, locals |-> locals, errors |-> errors, panic |-> panic]
Becomes(r) ==
    /\ resolutions' = r.resolutions
    /\ tys' = r.tys
    /\ terms' = r.terms
    /\ opens' = r.opens
    /\ namespace' = r.namespace
    /\ locals' = r.locals
    /\ errors' = r.errors
    /\ panic' = r.panic
Is(r) ==
    /\ resolutions = r.resolutions
    /\ tys = r.tys
    /\ terms = r.terms
    /\ opens = r.opens
    /\ namespace = r.namespace
    /\ locals = r.locals
    /\ errors = r.errors
    /\ panic = r.panic

----------------------------------------------------------------------------
(* The inputs drawn for one call of resolve_term or resolve_ty *)

\* the source offset of the node with the given id: nodes are numbered in source order
SpanAt(id) == 10 * id

Canon == "Microsoft.Quantum.Canon"
Core == "Microsoft.Quantum.Core"
\* the namespaces of the drawn packages: the local ones, then those of the prelude
LocalNames == <<"A", "B">>
PreludeNames == <<Canon, Core>>
DeclKinds == {"None", "Callable", "Ty"}
\* an open directive: the opened namespace and the alias ("" for none)
Directives == [ns : {"B", Canon, Core}, alias : {""}] \cup [ns : {Canon, Core}, alias : {"B"}]
DirectiveSeqs == UNION {[1..n -> Directives] : n \in 0..MaxOpens}
PathQualifiers == {"", "B"}
PathNames == {"Foo"}

\* a path occurrence, its first node id being n
MkPath(n, q, name) ==
    Path(n, IF q = "" THEN {} ELSE {Ident(n + 1, q, SpanAt(n))},
         Ident(n + 2, name, IF q = "" THEN SpanAt(n) ELSE SpanAt(n + 2)), SpanAt(n))

Declared(decl, names, k) == Cardinality({j \in 1..k : decl[names[j]] # "None"})

\* the item named Foo of the k-th namespace, if it declares one
DeclItems(decl, names, k, base) ==
    IF decl[names[k]] = "None" THEN <<>>
    ELSE LET id == base + Declared(decl, names, k)
         IN <<Item(decl[names[k]], {}, Ident(id, "Foo", SpanAt(id)), {})>>

OpenItem(d, id) ==
    Item("Open", {}, Ident(id, d.ns, SpanAt(id)),
         IF d.alias = "" THEN {} ELSE {Ident(0, d.alias, SpanAt(id))})

\* the namespaces of a package; namespace A holds the open directives
PackageOf(decl, names, dirs) ==
    [k \in 1..Len(names) |->
        Namespace(Ident(0, names[k], 0),
                  (IF names[k] = "A" THEN [j \in 1..Len(dirs) |-> OpenItem(dirs[j], j)] ELSE <<>>)
                  \o DeclItems(decl, names, k, Len(dirs)))]

\* the resolver after the build: the local package, then (ext) the prelude as package 1
Built(decl, dirs, ext) ==
    LET names == IF ext THEN LocalNames ELSE LocalNames \o PreludeNames
        g == GlobalTable_visit_package(GlobalTable_new, PackageOf(decl, names, dirs))
    IN into_resolver(IF ext THEN GlobalTable_visit_package(set_package(g, 1),
                                                           PackageOf(decl, PreludeNames, <<>>))
                     ELSE g)

\* the scopes drawn around the occurrence: scope i binds Foo when binds[i]
RECURSIVE DrawScopes(_, _, _)
DrawScopes(r, binds, id) ==
    IF binds = <<>> THEN r
    ELSE LET pushed == push_scope(r, EmptyMap)
         IN IF Head(binds)
            THEN DrawScopes(bind(pushed, PatBind(Ident(id, "Foo", SpanAt(id)), {})), Tail(binds), id + 1)
            ELSE DrawScopes(pushed, Tail(binds), id)

NoCall == [position |-> "none"]
Call(position, path, nerr) == [position |-> position, path |-> path, errors |-> nerr]

\* the resolver is inside namespace A (or past it, outside any namespace), inside
\* the drawn scopes, about to resolve one path occurrence
InitResolve ==
    \E decl \in [{"A", "B", Canon, Core} -> DeclKinds], dirs \in DirectiveSeqs,
       ext \in BOOLEAN, unnamed \in BOOLEAN, inside \in BOOLEAN,
       binds \in UNION {[1..n -> BOOLEAN] : n \in 0..MaxScopes} :
        LET names == IF ext THEN LocalNames ELSE LocalNames \o PreludeNames
            items == Cardinality({n \in DOMAIN decl : decl[n] # "None"})
            used == Len(dirs) + Declared(decl, names, Len(names))
            package == PackageOf(decl, names, dirs)
            r0 == Built(decl, dirs, ext)
            r1 == IF unnamed
                  THEN add_global_callable(r0, [name |-> Ident(used + 1, "Foo", SpanAt(used + 1))])
                  ELSE r0
            r2 == enter_namespace(r1, package[1])
            r3 == IF inside THEN r2 ELSE leave_namespace(r2)
            r4 == DrawScopes(r3, binds, used + 2)
        IN /\ items + (IF unnamed THEN 1 ELSE 0) + Len(dirs) + Len(binds) <= MaxInput
           /\ (ext => \E n \in {Canon, Core} : decl[n] # "None")
           /\ Is(r4)
           /\ stack = <<>>
           /\ nextId = used + 2 + Len(binds)
           /\ tree = [opens |-> SelectSeq(package[1].items, LAMBDA i : i.kind = "Open"),
                      paths |-> {}, nodes |-> 0]
           /\ last = NoCall
           /\ table_package = Moved /\ scanner = Dropped

\* one occurrence in term position is resolved
CallResolveTerm ==
    \E q \in PathQualifiers, name \in PathNames :
        LET path == MkPath(nextId, q, name)
        IN /\ last = NoCall /\ table_package = Moved
           /\ \E r \in resolve_term(Self, path) : Becomes(r)
           /\ last' = Call("term", path, Len(errors))
           /\ UNCHANGED <<table_package, scanner>>
           /\ nextId' = nextId + 3
           /\ tree' = [tree EXCEPT !.paths = @ \cup {path.id}]
           /\ UNCHANGED stack

\* one occurrence in type position is resolved
CallResolveTy ==
    \E q \in PathQualifiers, name \in PathNames :
        LET path == MkPath(nextId, q, name)
        IN /\ last = NoCall /\ table_package = Moved
           /\ \E r \in resolve_ty(Self, path) : Becomes(r)
           /\ last' = Call("ty", path, Len(errors))
           /\ UNCHANGED <<table_package, scanner>>
           /\ nextId' = nextId + 3
           /\ tree' = [tree EXCEPT !.paths = @ \cup {path.id}]
           /\ UNCHANGED stack

NextResolve == CallResolveTerm \/ CallResolveTy

SpecResolve == InitResolve /\ [][NextResolve]_vars

\* resolve as a function of its arguments: the symbol table is any map from the
\* namespaces to the DefId of Foo, two namespaces may hold the same DefId
TableIds == {DefId(Extern(1), 1), DefId(Extern(1), 2)}
Tables ==
    UNION {[nss -> [{"Foo"} -> TableIds]] : nss \in SUBSET {"A", "B", Canon, Core}}

InitOpens ==
    \E table \in Tables, dirs \in DirectiveSeqs, inside \in BOOLEAN :
        LET items == [j \in 1..Len(dirs) |-> OpenItem(dirs[j], j)]
            r0 == [resolutions |-> EmptyMap, tys |-> table, terms |-> table,
                   opens |-> EmptyMap, namespace |-> "", locals |-> <<>>,
                   errors |-> <<>>, panic |-> ""]
            r1 == enter_namespace(r0, Namespace(Ident(0, "A", 0), items))
        IN /\ Cardinality(DOMAIN table) + Len(dirs) <= MaxInput
           /\ Is(IF inside THEN r1 ELSE leave_namespace(r1))
           /\ stack = <<>>
           /\ nextId = Len(dirs) + 1
           /\ tree = [opens |-> items, paths |-> {}, nodes |-> 0]
           /\ last = NoCall
           /\ table_package = Moved /\ scanner = Dropped

SpecOpens == InitOpens /\ [][NextResolve]_vars

\* resolve over the tables of packages that declare Foo in some of the namespaces
\* A, B, C and Canon, each declaration with its own DefId, inside namespace A (or
\* past it) whose directives open B, C or Canon, without alias or under the
\* alias B, and inside at most one scope
AliasNames == <<"A", "B", "C", Canon>>
AliasTables ==
    {[ns \in {AliasNames[i] : i \in nss} |->
         [name \in {"Foo"} |-> DefId(Local, CHOOSE i \in nss : AliasNames[i] = ns)]] :
       nss \in SUBSET DOMAIN AliasNames}
AliasDirectives == [ns : {"B", "C", Canon}, alias : {"", "B"}]
AliasDirectiveSeqs == UNION {[1..n -> AliasDirectives] : n \in 0..MaxOpens}

InitAlias ==
    \E table \in AliasTables, dirs \in AliasDirectiveSeqs, inside \in BOOLEAN,
       binds \in {<<>>, <<FALSE>>, <<TRUE>>} :
        LET items == [j \in 1..Len(dirs) |-> OpenItem(dirs[j], Len(AliasNames) + j)]
            used == Len(AliasNames) + Len(dirs)
            r0 == [resolutions |-> EmptyMap, tys |-> table, terms |-> table,
                   opens |-> EmptyMap, namespace |-> "", locals |-> <<>>,
                   errors |-> <<>>, panic |-> ""]
            r1 == enter_namespace(r0, Namespace(Ident(0, "A", 0), items))
            r2 == IF inside THEN r1 ELSE leave_namespace(r1)
        IN /\ Cardinality(DOMAIN table) + Len(dirs) + Len(binds) <= MaxInput
           /\ Is(DrawScopes(r2, binds, used + 1))
           /\ stack = <<>>
           /\ nextId = used + 1 + Len(binds)
           /\ tree = [opens |-> items, paths |-> {}, nodes |-> 0]
           /\ last = NoCall
           /\ table_package = Moved /\ scanner = Dropped

SpecAlias == InitAlias /\ [][NextResolve]_vars

----------------------------------------------------------------------------
(* The build of the symbol tables, package by package, and the resolver made of them *)

\* packages linked besides the local one
MaxPackages == 1

BuildNames == {"B", Canon}
\* the items of a namespace: callables and types, declared internal or not, open
\* directives and items that failed to parse
ItemShapes ==
    [kind : {"Callable", "Ty"}, visibility : {{}, {"Internal"}}]
        \cup [kind : {"Open", "Err"}, visibility : {{}}]
ItemShapeSeqs == UNION {[1..n -> ItemShapes] : n \in 1..MaxItems}
BuildItem(shape, id) ==
    IF shape.kind = "Open" THEN OpenItem([ns |-> Canon, alias |-> ""], id)
    ELSE Item(shape.kind, shape.visibility, Ident(id, "Foo", SpanAt(id)), {})

\* the builder's fields, and the step that replaces them by g
GlobalTable_Self ==
    [resolutions |-> resolutions, tys |-> tys, terms |-> terms,
     package |-> table_package, namespace |-> namespace]
GlobalTable_Becomes(g) ==
    /\ resolutions' = g.resolutions
    /\ tys' = g.tys
    /\ terms' = g.terms
    /\ table_package' = g.package
    /\ namespace' = g.namespace
Building == table_package # Moved

\* GlobalTable::new
InitBuild ==
    /\ resolutions = GlobalTable_new.resolutions
    /\ tys = GlobalTable_new.tys
    /\ terms = GlobalTable_new.terms
    /\ table_package = GlobalTable_new.package /\ scanner = Dropped
    /\ namespace = GlobalTable_new.namespace
    /\ opens = EmptyMap /\ locals = <<>> /\ errors = <<>> /\ panic = ""
    /\ stack = <<>>
    /\ nextId = 1
    /\ tree = [opens |-> <<>>, paths |-> {}, nodes |-> 0, items |-> {}]
    /\ last = [position |-> "none"]

\* GlobalTable::set_package: the next linked package, its nodes numbered from 1 again
BuildSetPackage ==
    \E p \in 1..MaxPackages :
        /\ Building /\ p > table_package.id
        /\ GlobalTable_Becomes(set_package(GlobalTable_Self, p))
        /\ nextId' = 1
        /\ UNCHANGED <<opens, locals, errors, panic, stack, tree, last, scanner>>

\* GlobalTable::visit_namespace on a namespace of the package being added
BuildVisitNamespace ==
    \E name \in BuildNames, shapes \in ItemShapeSeqs :
        LET items == [j \in 1..Len(shapes) |-> BuildItem(shapes[j], nextId + j - 1)]
            ns == Namespace(Ident(0, name, 0), items)
        IN /\ Building /\ nextId + Len(shapes) - 1 <= MaxItems
           /\ GlobalTable_Becomes(GlobalTable_visit_namespace(GlobalTable_Self, ns))
           /\ nextId' = nextId + Len(shapes)
           /\ tree' = [tree EXCEPT !.items = @ \cup
                         {[package |-> table_package, namespace |-> name, item |-> items[j]] :
                            j \in 1..Len(items)}]
           /\ UNCHANGED <<opens, locals, errors, panic, stack, last, scanner>>

\* GlobalTable::into_resolver; the tree walked next has its nodes numbered after the items
IntoResolver ==
    /\ Building
    /\ Becomes(into_resolver(GlobalTable_Self))
    /\ table_package' = Moved
    /\ nextId' = MaxItems + 1
    /\ UNCHANGED <<stack, tree, last, scanner>>

NextBuild ==
    \/ BuildSetPackage \/ BuildVisitNamespace \/ IntoResolver
    \/ CallResolveTerm \/ CallResolveTy

SpecBuild == InitBuild /\ [][NextBuild]_vars

----------------------------------------------------------------------------
(* The walk of the resolver over a tree *)
(*                                                                         *)
(* The visitor recurses over the tree; stack holds one frame per construct *)
(* whose visit has begun and not ended.  The tree is drawn as the walk     *)
(* goes: each step draws the next child of the construct on top.  A step   *)
(* runs a handler up to the visit of its next drawn child, or to its end.  *)

\* most names (bindings and paths) of the walked tree
MaxNodes == 4
\* most constructs open at once
MaxDepth == 4
Frame(kind) == [kind |-> kind]
PatFrame(kind, pat) == [kind |-> kind, pat |-> pat]
\* a callable declaration being walked: its input pattern and the kind of its body
DeclFrame(body, pat) == [kind |-> "Callable", body |-> body, pat |-> pat]
\* a for loop being walked, and the scope stack its handler was entered with
LoopFrame(kind, pat, scopes) == [kind |-> kind, pat |-> pat, scopes |-> scopes]
Top == stack[Len(stack)]
Push(stk, frame) == Append(stk, frame)
Pop(stk) == SubSeq(stk, 1, Len(stk) - 1)

\* the shapes of the drawn patterns: x : Foo, ((x), _, ...), and ... for the
\* input of a specialization
PatShapes == {"BindTy", "Tuple"}
SpecPatShapes == PatShapes \cup {"Elided"}
MkPat(shape, n) ==
    CASE shape = "BindTy" -> PatBind(Ident(n, "Foo", SpanAt(n)), {MkPath(n + 1, "", "Foo")})
      [] shape = "Tuple" ->
           PatTuple(<<PatParen(PatBind(Ident(n, "Foo", SpanAt(n)), {})), PatDiscard({}), PatElided>>)
      [] OTHER -> PatElided
\* the node ids a pattern of the shape takes, and the names and paths it holds
PatIds(shape) == CASE shape = "BindTy" -> 4 [] shape = "Tuple" -> 1 [] OTHER -> 0
PatNames(shape) == CASE shape = "BindTy" -> 2 [] shape = "Tuple" -> 1 [] OTHER -> 0

\* walk_pat: the paths of the type annotations of a pattern, in source order
RECURSIVE pat_tys(_)
RECURSIVE pats_tys(_)
pats_tys(pats) == IF pats = <<>> THEN <<>> ELSE pat_tys(Head(pats)) \o pats_tys(Tail(pats))
pat_tys(pat) ==
    CASE pat.kind \in {"Bind", "Discard"} ->
           IF pat.ty = {} THEN <<>> ELSE <<CHOOSE t \in pat.ty : TRUE>>
      [] pat.kind = "Paren" -> pat_tys(pat.pat)
      [] pat.kind = "Tuple" -> pats_tys(pat.pats)
      [] OTHER -> <<>>

\* Resolver::visit_ty on each type of a sequence that is a path: resolve_ty
RECURSIVE visit_tys(_, _)
visit_tys(rs, paths) ==
    IF paths = <<>> THEN rs
    ELSE visit_tys(UNION {IF r.panic # "" THEN {r} ELSE resolve_ty(r, Head(paths)) : r \in rs},
                   Tail(paths))

\* (mutant) with_pat pushes a scope and does not bind the pattern
with_pat_unbound(r, pat) == push_scope(r, EmptyMap)
\* (mutant) with_pat binds the pattern in the scope it finds
with_pat_enclosing(r, pat) == bind(r, pat)
\* Resolver::with_pat up to the call of f
with_pat(r, pat) == bind(push_scope(r, EmptyMap), pat)

\* the return into the handlers below: with_pat ends when the block it wraps ends
\* (visit_spec_decl, the For arm of visit_expr, a callable whose body is a block)
RECURSIVE unwind(_, _)
unwind(r, stk) ==
    IF stk # <<>> /\ r.panic = ""
       /\ (\/ stk[Len(stk)].kind \in {"SpecDecl", "For"}
           \/ (stk[Len(stk)].kind = "Callable" /\ stk[Len(stk)].body = "Block"))
    THEN unwind(pop_scope(r), Pop(stk))
    ELSE [r |-> r, stack |-> stk]

Running == panic = ""
InStmts ==
    /\ stack # <<>>
    /\ \/ Top.kind \in {"Block", "QubitBlock"}
       \/ (Top.kind = "Repeat" /\ Top.part \in {"repeat", "fixup"})
InExpr ==
    /\ stack # <<>>
    /\ (InStmts \/ Top.kind \in {"Local", "QubitInit", "ForIter", "Repeat", "Lambda", "Entry"})
Room(names, frames) == tree.nodes + names <= MaxNodes /\ Len(stack) + frames <= MaxDepth
Grown(names, paths) == [tree EXCEPT !.nodes = @ + names, !.paths = @ \cup paths]
PathIds(paths) == {paths[i].id : i \in DOMAIN paths}
\* the name nodes of the Bind leaves of a pattern
RECURSIVE BindLeaves(_)
BindLeaves(pat) ==
    CASE pat.kind = "Bind" -> {pat.name.id}
      [] pat.kind = "Paren" -> BindLeaves(pat.pat)
      [] pat.kind = "Tuple" -> UNION {BindLeaves(pat.pats[i]) : i \in DOMAIN pat.pats}
      [] OTHER -> {}
\* the walk has reached the pattern with bind
Bound(tr, pat) == [tr EXCEPT !.binds = @ \cup BindLeaves(pat)]
\* the place of a path expression: the part of the construct on top that the walk is in
Where == IF Top.kind = "Repeat" THEN Top.part ELSE Top.kind
Site(id, q, at) == [id |-> id, q |-> q, at |-> at]
\* a block being walked, and the Bind leaves reached before its first statement
BlockFrame(kind, outer) == [kind |-> kind, outer |-> outer]
\* the block has ended: the names bound by the statements inside it
Closed(tr, frame) == [tr EXCEPT !.closed = @ \cup (tr.binds \ frame.outer)]

\* a repeat expression being walked, the part the walk is in, and the scope stack
\* its handler was entered with
RepeatFrame(part, scopes) == [kind |-> "Repeat", part |-> part, scopes |-> scopes]
\* (mutant) each part of a repeat expression gets a scope of its own
next_part_fresh(r) == push_scope(pop_scope(r), EmptyMap)
\* ExprKind::Repeat: inside with_scope, nothing stands between the three parts
next_part(r) == r

\* (mutant) the pattern of a qubit statement is bound before the initializer is walked
before_qubit_init_bound(r, pat) == bind(r, pat)
\* Resolver::visit_stmt, StmtKind::Qubit: nothing precedes walk_qubit_init
before_qubit_init(r, pat) == r

\* a declaration among the items of a namespace block, before the walk visits it
Declaration == Item("Callable", {}, Ident(0, "Foo", 0), {})
InsertAt(seq, k, x) == SubSeq(seq, 1, k) \o <<x>> \o SubSeq(seq, k + 1, Len(seq))

\* a handler that has panicked does nothing more
then_push_scope(r) == IF r.panic # "" THEN r ELSE push_scope(r, EmptyMap)

\* the resolver after the build, before the walk: Resolver fields as into_resolver leaves them
Init ==
    \E decl \in [{"A", "B", Canon, Core} -> DeclKinds], ext \in BOOLEAN :
        LET names == IF ext THEN LocalNames ELSE LocalNames \o PreludeNames
        IN /\ Cardinality({n \in DOMAIN decl : decl[n] # "None"}) <= MaxItems
           /\ (ext => \E n \in {Canon, Core} : decl[n] # "None")
           /\ Is(Built(decl, <<>>, ext))
           /\ stack = <<>>
           /\ nextId = Declared(decl, names, Len(names)) + 1
           /\ tree = [opens |-> <<>>, paths |-> {}, nodes |-> 0, binds |-> {}, closed |-> {},
                      prior |-> EmptyMap, lets |-> {}, sites |-> {}]
           /\ last = NoCall
           /\ table_package = Moved /\ scanner = Dropped

\* Resolver::visit_namespace, up to the walk of the items: the items of the block
\* are its open directives and its declarations, which the walk visits afterwards;
\* the first declaration stands after any number of the directives
visit_namespace ==
    /\ Running /\ stack = <<>> /\ Room(1, 1)
    /\ \E name \in {"A", "B"}, dirs \in DirectiveSeqs, at \in 0..MaxOpens :
        LET directives == [j \in 1..Len(dirs) |-> OpenItem(dirs[j], nextId + j - 1)]
            ns == Namespace(Ident(0, name, 0), InsertAt(directives, at, Declaration))
        IN /\ Room(1 + Len(dirs), 1)
           /\ at <= Len(dirs)
           /\ Becomes(enter_namespace(Self, ns))
           /\ stack' = <<[kind |-> "Namespace", name |-> name]>>
           /\ nextId' = nextId + Len(dirs)
           /\ tree' = [tree EXCEPT !.opens = directives, !.nodes = @ + 1 + Len(dirs),
                                   !.prior = opens]
           /\ last' = NoCall
           /\ UNCHANGED <<table_package, scanner>>

\* Resolver::visit_namespace, after the walk of the items
end_namespace ==
    /\ Running /\ stack # <<>> /\ Top.kind = "Namespace"
    /\ Becomes(leave_namespace(Self))
    /\ stack' = Pop(stack)
    /\ last' = NoCall
    /\ UNCHANGED <<table_package, scanner>>
    /\ UNCHANGED <<nextId, tree>>

\* Resolver::visit_ty for a path in the definition of a type declared in the namespace
visit_ty ==
    LET path == MkPath(nextId, "", "Foo")
    IN /\ Running /\ stack # <<>> /\ Top.kind = "Namespace" /\ Room(1, 0)
       /\ \E r \in resolve_ty(Self, path) : Becomes(r)
       /\ last' = Call("ty", path, Len(errors))
       /\ UNCHANGED <<table_package, scanner>>
       /\ nextId' = nextId + 3
       /\ tree' = Grown(1, {path.id})
       /\ UNCHANGED stack

\* Resolver::visit_callable_decl: with_pat(input), then walk_callable_decl visits the
\* input pattern and the output type, and then the body (a block, or specializations)
visit_callable_decl ==
    \E shape \in PatShapes, output \in BOOLEAN, body \in {"Block", "Specs"} :
        LET pat == MkPat(shape, nextId)
            out == MkPath(nextId + PatIds(shape), "", "Foo")
            tys_ == pat_tys(pat) \o (IF output THEN <<out>> ELSE <<>>)
        IN /\ Running /\ stack # <<>> /\ Top.kind = "Namespace"
           /\ Room(PatNames(shape) + Len(tys_) - Len(pat_tys(pat)), 2)
           /\ \E r \in visit_tys({with_pat(Self, pat)}, tys_) :
                 IF body = "Block"
                 THEN /\ Becomes(then_push_scope(r))
                      /\ stack' = stack \o <<DeclFrame(body, pat),
                                           BlockFrame("Block", tree.binds \cup BindLeaves(pat))>>
                 ELSE /\ Becomes(r)
                      /\ stack' = Push(stack, DeclFrame(body, pat))
           /\ nextId' = nextId + PatIds(shape) + 3 * (Len(tys_) - Len(pat_tys(pat)))
           /\ tree' = Bound(Grown(PatNames(shape) + Len(tys_) - Len(pat_tys(pat)), PathIds(tys_)), pat)
           /\ last' = NoCall
           /\ UNCHANGED <<table_package, scanner>>

\* Resolver::visit_callable_decl: the specializations are walked, with_pat ends
end_callable_decl ==
    /\ Running /\ stack # <<>> /\ Top.kind = "Callable" /\ Top.body = "Specs"
    /\ Becomes(pop_scope(Self))
    /\ stack' = Pop(stack)
    /\ last' = NoCall
    /\ UNCHANGED <<table_package, scanner>>
    /\ UNCHANGED <<nextId, tree>>

\* Resolver::visit_spec_decl for SpecBody::Impl(input, block), up to the statements of the block
visit_spec_decl ==
    \E shape \in SpecPatShapes :
        LET pat == MkPat(shape, nextId)
        IN /\ Running /\ stack # <<>> /\ Top.kind = "Callable" /\ Top.body = "Specs"
           /\ Room(PatNames(shape), 2)
           /\ Becomes(then_push_scope(with_pat(Self, pat)))
           /\ stack' = stack \o <<PatFrame("SpecDecl", pat),
                                   BlockFrame("Block", tree.binds \cup BindLeaves(pat))>>
           /\ nextId' = nextId + PatIds(shape)
           /\ tree' = Bound(Grown(PatNames(shape), PathIds(pat_tys(pat))), pat)
           /\ last' = NoCall
           /\ UNCHANGED <<table_package, scanner>>

\* Resolver::visit_block, up to the statements
visit_block ==
    /\ Running /\ InExpr /\ Room(1, 1)
    /\ Becomes(push_scope(Self, EmptyMap))
    /\ stack' = Push(stack, BlockFrame("Block", tree.binds))
    /\ last' = NoCall
    /\ UNCHANGED <<table_package, scanner>>
    /\ tree' = Grown(1, {})
    /\ UNCHANGED nextId

\* Resolver::visit_block, after the statements, and the handlers it returns into
end_block ==
    /\ Running /\ stack # <<>> /\ Top.kind = "Block"
    /\ LET u == unwind(pop_scope(Self), Pop(stack))
       IN Becomes(u.r) /\ stack' = u.stack
    /\ last' = NoCall
    /\ UNCHANGED <<table_package, scanner>>
    /\ tree' = Closed(tree, Top)
    /\ UNCHANGED nextId

\* Resolver::visit_stmt, StmtKind::Local: walk_stmt visits the pattern, then the expression
visit_stmt_local ==
    \E shape \in PatShapes :
        LET pat == MkPat(shape, nextId)
        IN /\ Running /\ InStmts /\ Room(PatNames(shape), 1)
           /\ \E r \in visit_tys({Self}, pat_tys(pat)) : Becomes(r)
           /\ stack' = Push(stack, PatFrame("Local", pat))
           /\ nextId' = nextId + PatIds(shape)
           /\ tree' = Grown(PatNames(shape), PathIds(pat_tys(pat)))
           /\ last' = NoCall
           /\ UNCHANGED <<table_package, scanner>>

\* Resolver::visit_stmt, StmtKind::Local: the expression is walked, the pattern is bound
end_stmt_local ==
    /\ Running /\ stack # <<>> /\ Top.kind = "Local"
    /\ Becomes(bind(Self, Top.pat))
    /\ stack' = Pop(stack)
    /\ last' = NoCall
    /\ UNCHANGED <<table_package, scanner>>
    /\ tree' = [Bound(tree, Top.pat) EXCEPT !.lets = @ \cup BindLeaves(Top.pat)]
    /\ UNCHANGED nextId

\* Resolver::visit_stmt, StmtKind::Qubit, up to the expressions of the initializer
visit_stmt_qubit ==
    \E shape \in PatShapes, block \in BOOLEAN :
        LET pat == MkPat(shape, nextId)
        IN /\ Running /\ InStmts /\ Room(PatNames(shape), 1)
           /\ Becomes(before_qubit_init(Self, pat))
           /\ stack' = Push(stack, [kind |-> "QubitInit", pat |-> pat, block |-> block])
           /\ nextId' = nextId + PatIds(shape)
           /\ tree' = Grown(PatNames(shape), PathIds(pat_tys(pat)))
           /\ last' = NoCall
           /\ UNCHANGED <<table_package, scanner>>

\* Resolver::visit_stmt, StmtKind::Qubit: the initializer is walked, the pattern is
\* bound, and the statements of the attached block, if any, come next
end_qubit_init ==
    /\ Running /\ stack # <<>> /\ Top.kind = "QubitInit"
    /\ Becomes(bind(Self, Top.pat))
    /\ stack' = IF Top.block
                THEN Push(Pop(stack), BlockFrame("QubitBlock", tree.binds \cup BindLeaves(Top.pat)))
                ELSE Pop(stack)
    /\ last' = NoCall
    /\ UNCHANGED <<table_package, scanner>>
    /\ tree' = Bound(tree, Top.pat)
    /\ UNCHANGED nextId

\* Resolver::visit_stmt, StmtKind::Qubit: walk_block has visited the attached block
end_qubit_block ==
    /\ Running /\ stack # <<>> /\ Top.kind = "QubitBlock"
    /\ stack' = Pop(stack)
    /\ last' = NoCall
    /\ UNCHANGED <<table_package, scanner>>
    /\ tree' = Closed(tree, Top)
    /\ UNCHANGED <<resolutions, tys, terms, opens, namespace, locals, errors, panic, nextId>>

\* Resolver::visit_expr, ExprKind::Path
visit_expr_path ==
    \E q \in PathQualifiers :
        LET path == MkPath(nextId, q, "Foo")
        IN /\ Running /\ InExpr /\ Room(1, 0)
           /\ \E r \in resolve_term(Self, path) : Becomes(r)
           /\ last' = Call("term", path, Len(errors))
           /\ UNCHANGED <<table_package, scanner>>
           /\ nextId' = nextId + 3
           /\ tree' = [Grown(1, {path.id}) EXCEPT !.sites = @ \cup {Site(path.id, q, Where)}]
           /\ UNCHANGED stack

\* Resolver::visit_expr, ExprKind::For, up to the expressions of iter
visit_expr_for ==
    \E shape \in PatShapes :
        LET pat == MkPat(shape, nextId)
        IN /\ Running /\ InExpr /\ Room(PatNames(shape), 2)
           /\ stack' = Push(stack, LoopFrame("ForIter", pat, locals))
           /\ nextId' = nextId + PatIds(shape)
           /\ tree' = Grown(PatNames(shape), PathIds(pat_tys(pat)))
           /\ last' = NoCall
           /\ UNCHANGED <<table_package, scanner>>
           /\ UNCHANGED <<resolutions, tys, terms, opens, namespace, locals, errors, panic>>

\* Resolver::visit_expr, ExprKind::For: iter is walked; with_pat(pat), visit_block(block)
end_for_iter ==
    /\ Running /\ stack # <<>> /\ Top.kind = "ForIter"
    /\ Becomes(then_push_scope(with_pat(Self, Top.pat)))
    /\ stack' = Pop(stack) \o <<LoopFrame("For", Top.pat, Top.scopes),
                                  BlockFrame("Block", tree.binds \cup BindLeaves(Top.pat))>>
    /\ last' = NoCall
    /\ UNCHANGED <<table_package, scanner>>
    /\ tree' = Bound(tree, Top.pat)
    /\ UNCHANGED nextId

\* Resolver::visit_expr, ExprKind::Repeat, up to the statements of the repeat block
visit_expr_repeat ==
    /\ Running /\ InExpr /\ Room(1, 1)
    /\ Becomes(push_scope(Self, EmptyMap))
    /\ stack' = Push(stack, RepeatFrame("repeat", locals))
    /\ last' = NoCall
    /\ UNCHANGED <<table_package, scanner>>
    /\ tree' = Grown(1, {})
    /\ UNCHANGED nextId

\* ExprKind::Repeat: the statements of the repeat block are visited, cond comes next
repeat_until ==
    /\ Running /\ stack # <<>> /\ Top.kind = "Repeat" /\ Top.part = "repeat"
    /\ Becomes(next_part(Self))
    /\ stack' = Push(Pop(stack), RepeatFrame("cond", Top.scopes))
    /\ last' = NoCall
    /\ UNCHANGED <<table_package, scanner>>
    /\ UNCHANGED <<nextId, tree>>

\* ExprKind::Repeat: cond is visited, the statements of the fixup block come next
repeat_fixup ==
    /\ Running /\ stack # <<>> /\ Top.kind = "Repeat" /\ Top.part = "cond"
    /\ Becomes(next_part(Self))
    /\ stack' = Push(Pop(stack), RepeatFrame("fixup", Top.scopes))
    /\ last' = NoCall
    /\ UNCHANGED <<table_package, scanner>>
    /\ UNCHANGED <<nextId, tree>>

\* ExprKind::Repeat: the end of with_scope
end_expr_repeat ==
    /\ Running /\ stack # <<>> /\ Top.kind = "Repeat" /\ Top.part \in {"cond", "fixup"}
    /\ Becomes(pop_scope(Self))
    /\ stack' = Pop(stack)
    /\ last' = NoCall
    /\ UNCHANGED <<table_package, scanner>>
    /\ UNCHANGED <<nextId, tree>>

\* Resolver::visit_expr, ExprKind::Lambda, up to the expressions of the body
visit_expr_lambda ==
    \E shape \in PatShapes :
        LET pat == MkPat(shape, nextId)
        IN /\ Running /\ InExpr /\ Room(PatNames(shape), 1)
           /\ Becomes(with_pat(Self, pat))
           /\ stack' = Push(stack, Frame("Lambda"))
           /\ nextId' = nextId + PatIds(shape)
           /\ tree' = Bound(Grown(PatNames(shape), PathIds(pat_tys(pat))), pat)
           /\ last' = NoCall
           /\ UNCHANGED <<table_package, scanner>>

\* ExprKind::Lambda: the end of with_pat
end_expr_lambda ==
    /\ Running /\ stack # <<>> /\ Top.kind = "Lambda"
    /\ Becomes(pop_scope(Self))
    /\ stack' = Pop(stack)
    /\ last' = NoCall
    /\ UNCHANGED <<table_package, scanner>>
    /\ UNCHANGED <<nextId, tree>>

\* the walk of the entry expression of the package: Resolver::visit_expr from outside
visit_entry_expr ==
    /\ Running /\ stack = <<>> /\ Room(1, 1)
    /\ stack' = <<Frame("Entry")>>
    /\ tree' = Grown(1, {})
    /\ last' = NoCall
    /\ UNCHANGED <<table_package, scanner>>
    /\ UNCHANGED <<resolutions, tys, terms, opens, namespace, locals, errors, panic, nextId>>

end_entry_expr ==
    /\ Running /\ stack # <<>> /\ Top.kind = "Entry"
    /\ stack' = Pop(stack)
    /\ last' = NoCall
    /\ UNCHANGED <<table_package, scanner>>
    /\ UNCHANGED <<resolutions, tys, terms, opens, namespace, locals, errors, panic, nextId, tree>>

Next ==
    \/ visit_namespace \/ end_namespace \/ visit_ty
    \/ visit_callable_decl \/ end_callable_decl \/ visit_spec_decl
    \/ visit_block \/ end_block
    \/ visit_stmt_local \/ end_stmt_local
    \/ visit_stmt_qubit \/ end_qubit_init \/ end_qubit_block
    \/ visit_expr_path
    \/ visit_expr_for \/ end_for_iter
    \/ visit_expr_repeat \/ repeat_until \/ repeat_fixup \/ end_expr_repeat
    \/ visit_expr_lambda \/ end_expr_lambda
    \/ visit_entry_expr \/ end_entry_expr

Spec == Init /\ [][Next]_vars

----------------------------------------------------------------------------
(* The walk of the statements of one block *)

\* the resolver after the build, the walk being at the first statement of the
\* block that is the entry expression; the nodes counted are those of its
\* statements; the packages declare Foo in B, in the prelude namespace Canon, or not at all
InitBody ==
    \E decl \in [{"A", "B", Canon, Core} -> DeclKinds], ext \in BOOLEAN :
        LET names == IF ext THEN LocalNames ELSE LocalNames \o PreludeNames
        IN /\ decl["A"] = "None" /\ decl[Core] = "None"
           /\ (ext => decl[Canon] # "None")
           /\ Is(push_scope(Built(decl, <<>>, ext), EmptyMap))
           /\ stack = <<Frame("Entry"), BlockFrame("Block", {})>>
           /\ nextId = Declared(decl, names, Len(names)) + 1
           /\ tree = [opens |-> <<>>, paths |-> {}, nodes |-> 0, binds |-> {}, closed |-> {},
                      prior |-> EmptyMap, lets |-> {}, sites |-> {}]
           /\ last = NoCall
           /\ table_package = Moved /\ scanner = Dropped

NextBody ==
    \/ visit_block \/ end_block
    \/ visit_stmt_local \/ end_stmt_local
    \/ visit_stmt_qubit \/ end_qubit_init \/ end_qubit_block
    \/ visit_expr_path
    \/ visit_expr_for \/ end_for_iter
    \/ visit_expr_repeat \/ repeat_until \/ repeat_fixup \/ end_expr_repeat
    \/ visit_expr_lambda \/ end_expr_lambda
    \/ end_entry_expr

SpecBody == InitBody /\ [][NextBody]_vars

----------------------------------------------------------------------------
(* The walk of the specializations of a callable declaration *)

\* the resolver after the build, the walk being in namespace A at the first
\* specialization of a callable whose input pattern binds Foo; the nodes counted
\* are those that follow; the packages declare Foo as in the walk of a block
InitCallable ==
    \E decl \in [{"A", "B", Canon, Core} -> DeclKinds], ext \in BOOLEAN :
        LET names == IF ext THEN LocalNames ELSE LocalNames \o PreludeNames
            id == Declared(decl, names, Len(names)) + 1
            pat == MkPat("Tuple", id)
            ns == Namespace(Ident(0, "A", 0), <<Declaration>>)
        IN /\ decl["A"] = "None" /\ decl[Core] = "None"
           /\ (ext => decl[Canon] # "None")
           /\ Is(with_pat(enter_namespace(Built(decl, <<>>, ext), ns), pat))
           /\ stack = <<[kind |-> "Namespace", name |-> "A"], DeclFrame("Specs", pat)>>
           /\ nextId = id + 1
           /\ tree = [opens |-> <<>>, paths |-> {}, nodes |-> 0, binds |-> BindLeaves(pat),
                      closed |-> {}, prior |-> EmptyMap, lets |-> {}, sites |-> {}]
           /\ last = NoCall
           /\ table_package = Moved /\ scanner = Dropped

NextCallable ==
    \/ visit_spec_decl \/ end_block \/ end_callable_decl
    \/ visit_stmt_local \/ end_stmt_local
    \/ visit_expr_path
    \/ visit_callable_decl \/ end_namespace

SpecCallable == InitCallable /\ [][NextCallable]_vars

----------------------------------------------------------------------------
(* A walk of a sequence of trees, reset_errors, and the same walk again *)

\* the trees handed to the resolver: a namespace block with its open directives
\* and at most one type declaration whose definition is a path, or an
\* expression that is a path, outside any namespace
NamespaceTree(name, items, ty) == [kind |-> "Namespace", ns |-> Namespace(name, items), ty |-> ty]
ExprTree(path) == [kind |-> "Expr", path |-> path]

\* open directives of a namespace block walked twice
MaxRerunOpens == 1
RerunDirectiveSeqs == UNION {[1..n -> Directives] : n \in 0..MaxRerunOpens}

\* Resolver::visit_namespace / Resolver::visit_expr on a whole tree
walk_tree(r, t) ==
    IF t.kind = "Namespace"
    THEN {IF x.panic # "" THEN x ELSE leave_namespace(x) :
             x \in visit_tys({enter_namespace(r, t.ns)}, t.ty)}
    ELSE resolve_term(r, t.path)

InitRerun ==
    \E decl \in [{"A", "B", Canon, Core} -> DeclKinds] :
        LET names == LocalNames \o PreludeNames
        IN /\ Cardinality({n \in DOMAIN decl : decl[n] # "None"}) <= MaxItems
           /\ Is(Built(decl, <<>>, FALSE))
           /\ stack = <<>>
           /\ nextId = Declared(decl, names, Len(names)) + 1
           /\ tree = [opens |-> <<>>, paths |-> {}, nodes |-> 0, pass |-> 1,
                      walked |-> <<>>, left |-> <<>>,
                      first |-> [resolutions |-> EmptyMap, errors |-> <<>>]]
           /\ last = [position |-> "none"]
           /\ table_package = Moved /\ scanner = Dropped

\* the first walk: one more tree is walked, a namespace block
WalkNamespace ==
    \E name \in {"A"}, dirs \in RerunDirectiveSeqs, ty \in BOOLEAN :
        LET items == [j \in 1..Len(dirs) |-> OpenItem(dirs[j], nextId + j - 1)]
            path == MkPath(nextId + Len(dirs), "", "Foo")
            t == NamespaceTree(Ident(0, name, 0), items, IF ty THEN <<path>> ELSE <<>>)
        IN /\ Running /\ tree.pass = 1
           /\ Room(1 + Len(dirs) + Len(t.ty), 0)
           /\ \E r \in walk_tree(Self, t) : Becomes(r)
           /\ nextId' = nextId + Len(dirs) + 3 * Len(t.ty)
           /\ tree' = [tree EXCEPT !.opens = items, !.paths = @ \cup PathIds(t.ty),
                                   !.nodes = @ + 1 + Len(dirs) + Len(t.ty),
                                   !.walked = Append(@, t)]
           /\ UNCHANGED <<stack, last, table_package, scanner>>

\* the first walk: one more tree is walked, an expression
WalkExpr ==
    \E q \in PathQualifiers :
        LET t == ExprTree(MkPath(nextId, q, "Foo"))
        IN /\ Running /\ tree.pass = 1
           /\ Room(1, 0)
           /\ \E r \in walk_tree(Self, t) : Becomes(r)
           /\ nextId' = nextId + 3
           /\ tree' = [tree EXCEPT !.paths = @ \cup {t.path.id}, !.nodes = @ + 1,
                                   !.walked = Append(@, t)]
           /\ UNCHANGED <<stack, last, table_package, scanner>>

\* Resolver::reset_errors, after the first walk
ResetErrors ==
    /\ Running /\ tree.pass = 1 /\ tree.walked # <<>>
    /\ Becomes(reset_errors(Self))
    /\ tree' = [tree EXCEPT !.pass = 2, !.left = tree.walked,
                            !.first = [resolutions |-> resolutions, errors |-> errors]]
    /\ UNCHANGED <<stack, nextId, last, table_package, scanner>>

\* the second walk: the next tree of the same sequence is walked
Rewalk ==
    /\ Running /\ tree.pass = 2 /\ tree.left # <<>>
    /\ \E r \in walk_tree(Self, Head(tree.left)) : Becomes(r)
    /\ tree' = [tree EXCEPT !.left = Tail(@)]
    /\ UNCHANGED <<stack, nextId, last, table_package, scanner>>

NextRerun == WalkNamespace \/ WalkExpr \/ ResetErrors \/ Rewalk

SpecRerun == InitRerun /\ [][NextRerun]_vars

----------------------------------------------------------------------------
(* What the claims speak of, read off the state after a call *)

Called == last.position # "none"
LastPath == last.path
LastName == last.path.name.name
\* the qualifier of the path, "" when it has none
LastQualifier == IF last.path.namespace = {} THEN "" ELSE (CHOOSE i \in last.path.namespace : TRUE).name
Unqualified == last.path.namespace = {}
\* the table of the position of the occurrence
LastTable == IF last.position = "ty" THEN tys ELSE terms
Defines(table, ns, name) == ns \in DOMAIN table /\ name \in DOMAIN table[ns]
\* some scope of the lexical scope stack binds the name
BoundLocally(name) == \E i \in DOMAIN locals : name \in DOMAIN locals[i]
\* the DefIds the scopes hold
ScopeDefIds(scopes) == UNION {{scopes[i][name] : name \in DOMAIN scopes[i]} : i \in DOMAIN scopes}
\* the namespaces opened under the alias that define the name
OpenedDefining(table, alias, name) ==
    IF alias \in DOMAIN opens THEN {ns \in DOMAIN opens[alias] : Defines(table, ns, name)} ELSE {}
PreludeDefining(table, name) == {i \in DOMAIN PRELUDE : Defines(table, PRELUDE[i], name)}
\* the call wrote id for the occurrence and recorded no error
ResolvedTo(id) ==
    /\ panic = ""
    /\ Len(errors) = last.errors
    /\ last.path.id \in DOMAIN resolutions
    /\ resolutions[last.path.id] = id
\* the call appended exactly the error e and wrote no entry for the occurrence
FailedWith(e) ==
    /\ panic = ""
    /\ Len(errors) = last.errors + 1
    /\ errors[Len(errors)] = e
    /\ last.path.id \notin DOMAIN resolutions
\* the state records the given result of resolve for the last occurrence
LastRecorded(result) ==
    CASE result.tag = "Ok" -> ResolvedTo(result.id)
      [] result.tag = "Err" -> FailedWith(result.err)
      [] OTHER -> panic = result.msg
\* the scopes an occurrence at the last position can see
LastLocals == IF last.position = "ty" THEN <<>> ELSE locals
\* the open directives of the namespace block under the alias
DirectivesUnder(alias) ==
    {i \in DOMAIN tree.opens :
        (IF tree.opens[i].alias = {} THEN "" ELSE (CHOOSE a \in tree.opens[i].alias : TRUE).name) = alias}
\* no scope binds the name where the occurrence can see locals (term position)
NoLocalMatch == last.position = "ty" \/ ~BoundLocally(LastName)
\* the DefIds the namespaces opened under the alias bind to the name
OpenedIds(table, alias, name) == {table[ns][name] : ns \in OpenedDefining(table, alias, name)}
PreludeIds(table, name) == {table[PRELUDE[i]][name] : i \in PreludeDefining(table, name)}
DirectiveSpan(i) == tree.opens[i].name.span
DirectiveTarget(i) == tree.opens[i].name.name

----------------------------------------------------------------------------
(* Claims about one call of resolve_term or resolve_ty (SpecResolve) *)

\* C1: an unqualified path in term position whose name some scope binds resolves to
\* the DefId bound in the innermost scope that binds it, and no error is recorded,
\* whatever the namespace, the opens, the prelude and the unnamed namespace define.
C1_LocalShadowing ==
    (Called /\ last.position = "term" /\ Unqualified /\ BoundLocally(LastName)) =>
        LET i == CHOOSE i \in DOMAIN locals :
                    /\ LastName \in DOMAIN locals[i]
                    /\ \A j \in DOMAIN locals : j > i => LastName \notin DOMAIN locals[j]
        IN ResolvedTo(locals[i][LastName])

\* a local shadows the item of the enclosing namespace, an opened item and a prelude item
C1_Witness ==
    /\ Called /\ last.position = "term" /\ Unqualified /\ BoundLocally(LastName)
    /\ Defines(terms, namespace, LastName)
    /\ \E ns \in OpenedDefining(terms, "", LastName) : \A i \in DOMAIN PRELUDE : PRELUDE[i] # ns
    /\ PreludeDefining(terms, LastName) # {}
    /\ last.path.id \in DOMAIN resolutions

\* C2: an unqualified path with no matching local whose name the enclosing
\* namespace's own table defines resolves to that DefId without error, whatever
\* the opens bring in.
C2_OwnNamespacePriority ==
    (Called /\ Unqualified /\ NoLocalMatch /\ Defines(LastTable, namespace, LastName)) =>
        ResolvedTo(LastTable[namespace][LastName])

\* type position, two opened namespaces defining the name with distinct DefIds
C2_Witness ==
    /\ Called /\ Unqualified /\ NoLocalMatch /\ Defines(LastTable, namespace, LastName)
    /\ last.position = "ty"
    /\ namespace = "A"
    /\ Cardinality(OpenedIds(tys, "", LastName)) >= 2
    /\ last.path.id \in DOMAIN resolutions

\* C3: when exactly two namespaces opened without alias define the name, with
\* distinct DefIds, and the name is neither a local nor declared in the enclosing
\* namespace, the call appends exactly one Ambiguous error: its name is the
\* path's, its span the path's, its two candidate spans those of directives
\* opening the two namespaces, in increasing order; no entry is written.
C3_GenuineAmbiguity ==
    (/\ Called /\ Unqualified /\ NoLocalMatch
     /\ ~Defines(LastTable, namespace, LastName)
     /\ Cardinality(OpenedDefining(LastTable, "", LastName)) = 2
     /\ Cardinality(OpenedIds(LastTable, "", LastName)) = 2) =>
        \E i, j \in DirectivesUnder("") :
            /\ {DirectiveTarget(i), DirectiveTarget(j)} = OpenedDefining(LastTable, "", LastName)
            /\ DirectiveSpan(i) < DirectiveSpan(j)
            /\ FailedWith(Ambiguous(LastName, last.path.span, DirectiveSpan(i), DirectiveSpan(j)))

C3_Witness ==
    /\ Called /\ Unqualified /\ NoLocalMatch
    /\ ~Defines(LastTable, namespace, LastName)
    /\ Cardinality(OpenedDefining(LastTable, "", LastName)) = 2
    /\ Cardinality(OpenedIds(LastTable, "", LastName)) = 2
    /\ Len(errors) = last.errors + 1
    /\ errors[Len(errors)].kind = "Ambiguous"

\* C4: the two candidate spans of an Ambiguous error are those of the two
\* conflicting open directives with the smallest source offsets, in increasing
\* order: the first directive under the path's qualifier that opens a namespace
\* defining the name, and the first one that opens a namespace defining it with
\* another DefId.
C4_TieBreak ==
    (Called /\ panic = "" /\ Len(errors) = last.errors + 1
            /\ errors[Len(errors)].kind = "Ambiguous") =>
        LET e == errors[Len(errors)]
            conflicting == {i \in DirectivesUnder(LastQualifier) :
                               Defines(LastTable, DirectiveTarget(i), LastName)}
            IdAt(i) == LastTable[DirectiveTarget(i)][LastName]
            first == CHOOSE i \in conflicting : \A j \in conflicting : i <= j
            others == {j \in conflicting : IdAt(j) # IdAt(first)}
            second == CHOOSE i \in others : \A j \in others : i <= j
        IN e.first = DirectiveSpan(first) /\ e.second = DirectiveSpan(second)

\* C5: resolution is total: whatever the linked packages and the walked tree,
\* the walk never aborts; neither the prelude-uniqueness assertion of resolve
\* nor the scope-stack expectations of with_scope and bind fail.
C5_Total == panic = ""

\* the errors of the error list reported at the span of the path occurrence p
ErrorsAt(p) == {i \in DOMAIN errors : errors[i].span = SpanAt(p)}

\* C6: after a walk, every path occurrence of the walked tree, type annotations
\* inside the patterns of every construct included, has either an entry in the
\* resolution map or exactly one error in the error list, never both, never neither.
C6_EveryOccurrenceAttempted ==
    (stack = <<>> /\ panic = "") =>
        \A p \in tree.paths :
            \/ p \in DOMAIN resolutions /\ ErrorsAt(p) = {}
            \/ p \notin DOMAIN resolutions /\ Cardinality(ErrorsAt(p)) = 1

\* C7: when no tier matches the path, the call appends exactly one NotFound error
\* with the path's trailing name and the path's span, and writes no entry.
C7_NotFound ==
    (/\ Called
     /\ Unqualified => (NoLocalMatch /\ ~Defines(LastTable, namespace, LastName)
                                     /\ PreludeDefining(LastTable, LastName) = {})
     /\ OpenedDefining(LastTable, LastQualifier, LastName) = {}
     /\ ~Defines(LastTable, LastQualifier, LastName)) =>
        FailedWith(NotFound(LastName, last.path.span))

\* a qualified path whose name the enclosing namespace and the prelude define
C7_Witness ==
    /\ Called /\ ~Unqualified
    /\ OpenedDefining(LastTable, LastQualifier, LastName) = {}
    /\ ~Defines(LastTable, LastQualifier, LastName)
    /\ Defines(LastTable, namespace, LastName)
    /\ PreludeDefining(LastTable, LastName) # {}
    /\ Len(errors) = last.errors + 1

\* C8: an unqualified path with no local and no own-namespace match, for which the
\* unaliased opens reach exactly one DefId, resolves to it without error, also
\* when the prelude defines the name.
C8_OpensShadowPrelude ==
    (/\ Called /\ Unqualified /\ NoLocalMatch
     /\ ~Defines(LastTable, namespace, LastName)
     /\ Cardinality(OpenedIds(LastTable, "", LastName)) = 1) =>
        ResolvedTo(CHOOSE id \in OpenedIds(LastTable, "", LastName) : TRUE)

\* the prelude defines the name with another DefId
C8_Witness ==
    /\ Called /\ Unqualified /\ NoLocalMatch
    /\ ~Defines(LastTable, namespace, LastName)
    /\ Cardinality(OpenedIds(LastTable, "", LastName)) = 1
    /\ PreludeIds(LastTable, LastName) \ OpenedIds(LastTable, "", LastName) # {}
    /\ last.path.id \in DOMAIN resolutions

\* C9: an unqualified name that is no local, is not declared in the enclosing
\* namespace and is defined by no explicitly opened namespace, but by one prelude
\* namespace, resolves to that definition.
C9_PreludeFallback ==
    (/\ Called /\ Unqualified /\ NoLocalMatch
     /\ ~Defines(LastTable, namespace, LastName)
     /\ OpenedDefining(LastTable, "", LastName) = {}
     /\ Cardinality(PreludeIds(LastTable, LastName)) = 1) =>
        ResolvedTo(CHOOSE id \in PreludeIds(LastTable, LastName) : TRUE)

\* the prelude namespace is that of an external package, the occurrence outside any namespace
C9_Witness ==
    /\ Called /\ Unqualified /\ NoLocalMatch
    /\ namespace = ""
    /\ ~Defines(LastTable, namespace, LastName)
    /\ OpenedDefining(LastTable, "", LastName) = {}
    /\ \E id \in PreludeIds(LastTable, LastName) :
          /\ id.package = Extern(1)
          /\ last.path.id \in DOMAIN resolutions
          /\ resolutions[last.path.id] = id

\* C10: a qualified path N.x, in a namespace with no open directive for N and
\* none aliased as N, resolves to the DefId the table of its position binds to x
\* in namespace N, whenever N defines x.
C10_UnopenedGlobal ==
    (/\ Called /\ ~Unqualified
     /\ LastQualifier \notin DOMAIN opens
     /\ \A alias \in DOMAIN opens : LastQualifier \notin DOMAIN opens[alias]
     /\ Defines(LastTable, LastQualifier, LastName)) =>
        ResolvedTo(LastTable[LastQualifier][LastName])

\* type position, inside a namespace whose opens and the prelude define the name too
C10_Witness ==
    /\ Called /\ ~Unqualified /\ last.position = "ty"
    /\ LastQualifier \notin DOMAIN opens
    /\ \A alias \in DOMAIN opens : LastQualifier \notin DOMAIN opens[alias]
    /\ Defines(tys, LastQualifier, LastName)
    /\ OpenedDefining(tys, "", LastName) # {}
    /\ last.path.id \in DOMAIN resolutions

----------------------------------------------------------------------------
(* Claims about resolve over any symbol table (SpecOpens) *)

\* C11: when the namespaces opened under the path's qualifier that define the
\* name all bind it to one and the same DefId, and neither a local nor the
\* enclosing namespace's own table takes the name first, the call resolves the
\* path to that DefId and records no error, however many opens bring it in; an
\* Ambiguous error is recorded only when the opens reach two distinct DefIds.
C11_OpenCollapse ==
    Called =>
        /\ (/\ NoLocalMatch
            /\ Unqualified => ~Defines(LastTable, namespace, LastName)
            /\ Cardinality(OpenedIds(LastTable, LastQualifier, LastName)) = 1) =>
               \E id \in OpenedIds(LastTable, LastQualifier, LastName) : ResolvedTo(id)
        /\ (Len(errors) = last.errors + 1 /\ errors[Len(errors)].kind = "Ambiguous") =>
               Cardinality(OpenedIds(LastTable, LastQualifier, LastName)) >= 2

\* two distinct namespaces opened by three directives bind the name to one DefId
C11_Witness ==
    /\ Called /\ NoLocalMatch
    /\ Unqualified => ~Defines(LastTable, namespace, LastName)
    /\ Cardinality(OpenedDefining(LastTable, LastQualifier, LastName)) = 2
    /\ Cardinality(DirectivesUnder(LastQualifier)) = 3
    /\ Cardinality(OpenedIds(LastTable, LastQualifier, LastName)) = 1
    /\ last.path.id \in DOMAIN resolutions

----------------------------------------------------------------------------
(* Claims about one call, over the tables the builder makes (SpecResolve) *)

\* C13: for a fixed input the outcome of resolving an occurrence is the same for
\* every iteration order of the open table, the symbol tables and the candidate
\* collections: the call of resolve_term and of resolve_ty on any path has one
\* possible result (the entry written, or the error appended with its two spans),
\* hence one Resolution Map and one ordered error list per walk.
C13_Determinism ==
    \A q \in PathQualifiers :
        /\ Cardinality(resolve_term(Self, MkPath(nextId, q, "Foo"))) = 1
        /\ Cardinality(resolve_ty(Self, MkPath(nextId, q, "Foo"))) = 1

\* two namespaces opened under the alias B bind the name to distinct DefIds: the
\* candidate map has two entries, and the Ambiguous error carries their two spans
C13_Witness ==
    /\ Called /\ ~Unqualified
    /\ Cardinality(OpenedIds(LastTable, "B", LastName)) = 2
    /\ Len(errors) = last.errors + 1
    /\ errors[Len(errors)].kind = "Ambiguous"
    /\ errors[Len(errors)].first < errors[Len(errors)].second

\* the DefIds a table binds to the name in some namespace
BoundIn(table, name) == {table[ns][name] : ns \in {ns \in DOMAIN table : Defines(table, ns, name)}}

\* C28: a path in type position never sees the locals: whatever the scopes bind,
\* it resolves, if it resolves, to a DefId the type table binds to its name and
\* to no DefId of a scope; and when no namespace of the type table binds its
\* name (the name is at most a local or a callable) the call records NotFound
\* for it and no entry.
C28_TypePosition ==
    (Called /\ last.position = "ty") =>
        /\ \A id \in ScopeDefIds(locals) \cup (BoundIn(terms, LastName) \ BoundIn(tys, LastName)) :
              ~ResolvedTo(id)
        /\ last.path.id \in DOMAIN resolutions =>
              resolutions[last.path.id] \in BoundIn(tys, LastName)
        /\ BoundIn(tys, LastName) = {} => FailedWith(NotFound(LastName, last.path.span))

\* a path Foo in type position, inside a scope that binds Foo and in a namespace
\* that declares a callable Foo, no type Foo being declared, was not found
C28_Witness ==
    /\ Called /\ last.position = "ty" /\ Unqualified
    /\ BoundLocally(LastName)
    /\ Defines(terms, namespace, LastName)
    /\ BoundIn(tys, LastName) = {}
    /\ FailedWith(NotFound(LastName, last.path.span))

----------------------------------------------------------------------------
(* Claims about the walk (Spec) *)

\* the scopes the handlers in progress have pushed: one per with_scope / with_pat entered
RECURSIVE ScopesHeld(_)
ScopesHeld(stk) ==
    IF stk = <<>> THEN 0
    ELSE ScopesHeld(Tail(stk)) +
         (IF Head(stk).kind \in {"Callable", "SpecDecl", "Block", "For", "Repeat", "Lambda"}
          THEN 1 ELSE 0)

\* the declarations the symbol tables hold
TableDefIds ==
    {tys[ns][n] : ns \in DOMAIN tys, n \in {"Foo"}} \cup {terms[ns][n] : ns \in DOMAIN terms, n \in {"Foo"}}
\* the node n is the name of a Bind pattern leaf that bind has reached
BoundByPattern(n) ==
    /\ n \in DOMAIN resolutions /\ n \notin tree.paths
    /\ resolutions[n] \notin TableDefIds

\* C12: the lexical scope stack holds exactly the scopes of the with_scope and
\* with_pat calls in progress, so every such call returns with the depth it
\* found and the stack is empty after a walk that began with an empty stack;
\* and no step touches a scope outside the innermost one or the ones it pushes.
C12_ScopeBalance ==
    [][/\ panic' = "" => Len(locals') = ScopesHeld(stack')
       /\ panic' = "" =>
            \A i \in 1..Len(locals) :
                (i <= Len(locals') /\ (i < Len(locals) \/ Len(locals') # Len(locals))) =>
                    locals'[i] = locals[i]]_vars

\* a walk of three nodes or more is over, and a pattern bound a name in it
C12_Witness ==
    /\ stack = <<>> /\ panic = "" /\ locals = <<>>
    /\ tree.nodes >= 3
    /\ \E n \in DOMAIN resolutions : BoundByPattern(n)

\* the declarations of the local package the symbol tables hold
LocalDefIds == {id \in TableDefIds : id.package = Local}

\* C18: binding occurrences resolve to themselves: after the build and at every
\* point of the walk, the name node of every declaration of the local package
\* and of every Bind leaf that bind has reached (directly, in parentheses or in
\* a tuple) maps to DefId{Local, that node}; the Resolution Map has no other
\* entry than these and the resolved paths; bind puts the name in a scope when
\* it reaches it, and the scopes hold nothing but Bind leaves.
C18_BindingOccurrences ==
    [][panic' = "" =>
         /\ \A n \in tree'.binds :
               n \in DOMAIN resolutions' /\ resolutions'[n] = DefId(Local, n)
         /\ \A id \in LocalDefIds :
               id.node \in DOMAIN resolutions' /\ resolutions'[id.node] = id
         /\ DOMAIN resolutions' \subseteq
               tree'.binds \cup tree'.paths \cup {id.node : id \in LocalDefIds}
         /\ \A i \in DOMAIN locals' : \A name \in DOMAIN locals'[i] :
               locals'[i][name].package = Local /\ locals'[i][name].node \in tree'.binds
         /\ \A n \in tree'.binds \ tree.binds :
               \E i \in DOMAIN locals' :
                   "Foo" \in DOMAIN locals'[i] /\ locals'[i]["Foo"] = DefId(Local, n)]_vars

\* a walk is over in which bind met two tuple patterns (a parenthesized Bind, a
\* Discard and an Elided leaf each), the local package declaring an item
C18_Witness ==
    /\ stack = <<>> /\ panic = ""
    /\ Cardinality(tree.binds) >= 2 /\ tree.paths = {}
    /\ LocalDefIds # {}
    /\ \A n \in tree.binds : resolutions[n] = DefId(Local, n)

\* C20: every block opens its own scope and closes it on exit: a name bound by a
\* statement inside a block that has ended (the repeat and fixup bodies apart,
\* which share the scope of the repeat) is not visible as a local where an
\* occurrence can follow: the path Foo, resolved here in term position, does
\* not resolve to such a binding.
C20_BlockScope ==
    (Running /\ InExpr) =>
        \A result \in resolve(terms, opens, namespace, locals, MkPath(nextId, "", "Foo")) :
            result.tag = "Ok" => result.id \notin {DefId(Local, n) : n \in tree.closed}

\* the walk is inside a namespace block
InNamespace == stack # <<>> /\ stack[1].kind = "Namespace"

\* C21: open directives are scoped to their namespace block: an occurrence
\* resolved after the walk has left the namespace blocks (in an expression
\* outside any namespace) gets the result it would get with no open directive
\* in effect, and an occurrence inside a namespace block the result the
\* directives of that block alone give.
C21_OpensScoped ==
    Called =>
        \E result \in resolve(LastTable,
                              IF InNamespace THEN collect_opens(EmptyMap, tree.opens) ELSE EmptyMap,
                              namespace, LastLocals, LastPath) :
            LastRecorded(result)

\* the alias of the i-th open directive of the namespace block, "" when it has none
DirectiveAlias(i) ==
    IF tree.opens[i].alias = {} THEN "" ELSE (CHOOSE a \in tree.opens[i].alias : TRUE).name
\* the directives of the block that open the namespace ns under the alias
DirectivesOf(alias, ns) == {i \in DirectivesUnder(alias) : DirectiveTarget(i) = ns}

\* C22: inside a namespace block the open table holds exactly the open directives
\* among the items of that block, wherever they stand among the items: its
\* keys are the aliases of the directives ("" for a directive without alias),
\* under each alias it holds the namespaces opened under it, each with the span
\* of a directive of the block (the last one that opens it under that alias),
\* and nothing of a namespace walked before; the current namespace is the name
\* of the block inside it and the empty name outside.
C22_OpenTable ==
    /\ InNamespace =>
          /\ namespace = stack[1].name
          /\ DOMAIN opens = {DirectiveAlias(i) : i \in DOMAIN tree.opens}
          /\ \A alias \in DOMAIN opens :
                /\ DOMAIN opens[alias] = {DirectiveTarget(i) : i \in DirectivesUnder(alias)}
                /\ \A ns \in DOMAIN opens[alias] :
                      LET i == CHOOSE i \in DirectivesOf(alias, ns) :
                                  \A j \in DirectivesOf(alias, ns) : j <= i
                      IN opens[alias][ns] = DirectiveSpan(i)
    /\ ~InNamespace => namespace = ""

\* the walk is inside a namespace block with a directive under the alias B and none
\* without alias, entered with the table of an earlier block that opened a
\* namespace without alias
C22_Witness ==
    /\ InNamespace /\ panic = ""
    /\ DOMAIN tree.prior = {""}
    /\ DOMAIN opens = {"B"}

\* the DefIds of the Bind leaves of a pattern
PatDefIds(pat) == {DefId(Local, n) : n \in BindLeaves(pat)}
\* the DefIds the resolved paths map to
PathDefIds(res, paths) == {res[p] : p \in paths \cap DOMAIN res}
\* every scope of the two stacks that is in both keeps its names, each bound as
\* before or by a pattern bound in between
KeepsVisible(scopes, scopes_, binds, binds_) ==
    \A i \in DOMAIN scopes \cap DOMAIN scopes_ : \A name \in DOMAIN scopes[i] :
        /\ name \in DOMAIN scopes_[i]
        /\ \/ scopes_[i][name] = scopes[i][name]
           \/ scopes_[i][name].node \in binds_ \ binds

\* C23: the names bound by a qubit-allocation statement are not visible in its
\* initializer: while the initializer is walked no scope holds them and no path
\* resolved so far maps to them; when the initializer has been walked they are
\* the innermost bindings of their names, in the scope the enclosing block
\* opened; and they stay in that scope, through the statements of the attached
\* block and the statements that follow with their nested blocks, until they
\* are bound anew or the scope is popped.
C23_QubitVisibility ==
    [][panic' = "" =>
         /\ \A i \in DOMAIN stack' :
               stack'[i].kind = "QubitInit" =>
                   PatDefIds(stack'[i].pat) \cap
                       (ScopeDefIds(locals') \cup PathDefIds(resolutions', tree'.paths)) = {}
         /\ (/\ stack # <<>> /\ Top.kind = "QubitInit"
             /\ (Len(stack') < Len(stack) \/ stack'[Len(stack)].kind = "QubitBlock")) =>
                /\ Len(locals') = Len(locals)
                /\ \A id \in PatDefIds(Top.pat) :
                      find_local(locals', "Foo") = {id} /\ locals'[Len(locals')]["Foo"] = id
         /\ KeepsVisible(locals, locals', tree.binds, tree'.binds)]_vars

\* the walk is in the attached block of a qubit statement whose pattern binds Foo:
\* the path Foo in its initializer, the node after the pattern, resolved to a
\* binding made before the statement, and Foo is now bound to the name of the statement
C23_Witness ==
    /\ panic = "" /\ stack # <<>> /\ Top.kind = "QubitBlock"
    /\ \E site \in tree.sites :
          /\ site.at = "QubitInit" /\ site.q = ""
          /\ site.id \in DOMAIN resolutions
          /\ resolutions[site.id].package = Local
          /\ resolutions[site.id].node \in tree.binds
          /\ resolutions[site.id].node < site.id - 1
          /\ find_local(locals, "Foo") = {DefId(Local, site.id - 1)}

----------------------------------------------------------------------------
(* Claims about the statements of a block (SpecBody) *)

\* C24: the names bound by the pattern of a let statement are not visible to
\* its initializer nor to earlier statements: until the initializer has been
\* walked no scope holds them and no path resolved so far maps to them.  Then
\* they are registered in the innermost scope, the other scopes untouched, and
\* are the innermost bindings of their names, also when the scope already bound
\* the name; they stay in their scope until they are bound anew or the scope is
\* popped; and no step changes an entry the Resolution Map already has.
C24_LetVisibility ==
    [][panic' = "" =>
         /\ \A i \in DOMAIN stack' :
               stack'[i].kind = "Local" =>
                   PatDefIds(stack'[i].pat) \cap
                       (ScopeDefIds(locals') \cup PathDefIds(resolutions', tree'.paths)) = {}
         /\ (stack # <<>> /\ Top.kind = "Local" /\ Len(stack') < Len(stack)) =>
                /\ Len(locals') = Len(locals)
                /\ \A i \in 1..(Len(locals) - 1) : locals'[i] = locals[i]
                /\ PatDefIds(Top.pat) \cap PathDefIds(resolutions', tree'.paths) = {}
                /\ \A id \in PatDefIds(Top.pat) :
                      locals'[Len(locals')]["Foo"] = id /\ find_local(locals', "Foo") = {id}
         /\ KeepsVisible(locals, locals', tree.binds, tree'.binds)
         /\ \A n \in DOMAIN resolutions :
               n \in DOMAIN resolutions' /\ resolutions'[n] = resolutions[n]]_vars

\* two let statements of the block have bound Foo: the path in the initializer of
\* the first did not resolve to it, the path in the next statement did and still
\* does, and the scope of the block now binds Foo to the second
C24_Witness ==
    /\ panic = "" /\ Len(stack) = 2 /\ Top.kind = "Block" /\ Len(locals) = 1
    /\ \E n1 \in tree.lets, n2 \in tree.lets, s1 \in tree.sites, s2 \in tree.sites :
          /\ s1.at = "Local" /\ s1.q = "" /\ s1.id = n1 + 1
          /\ s2.at = "Block" /\ s2.q = "" /\ s1.id < s2.id /\ s2.id < n2
          /\ (s1.id \in DOMAIN resolutions => resolutions[s1.id] # DefId(Local, n1))
          /\ s2.id \in DOMAIN resolutions /\ resolutions[s2.id] = DefId(Local, n1)
          /\ locals[1]["Foo"] = DefId(Local, n2)

\* the for loops being walked whose handler is at the given part
Loops(stk, kind) == {i \in DOMAIN stk : stk[i].kind = kind}

\* C25: in a for loop the iterated expression is resolved with the scope stack as
\* it was before the loop: where an occurrence of it is resolved the stack is
\* that one, and no path resolved so far maps to a loop variable.  The body is
\* walked with one scope more that holds the loop variables and nothing else,
\* under the scope of the block, and that scope holds them as long as the body
\* is walked.  After the loop the scope stack is again the one before the loop:
\* neither the loop variables nor the names bound in the body are in it.
C25_ForScoping ==
    [][panic' = "" =>
         /\ \A i \in Loops(stack', "ForIter") :
               /\ i = Len(stack') => locals' = stack'[i].scopes
               /\ SubSeq(locals', 1, Len(stack'[i].scopes)) = stack'[i].scopes
               /\ PatDefIds(stack'[i].pat) \cap
                     (ScopeDefIds(locals') \cup PathDefIds(resolutions', tree'.paths)) = {}
         /\ \A i \in Loops(stack', "For") :
               LET k == Len(stack'[i].scopes) + 1
               IN /\ SubSeq(locals', 1, k - 1) = stack'[i].scopes
                  /\ Len(locals') > k
                  /\ DOMAIN locals'[k] = {"Foo"}
                  /\ locals'[k]["Foo"] \in PatDefIds(stack'[i].pat)
                  /\ i \notin Loops(stack, "For") => locals'[k + 1] = EmptyMap
         /\ \A i \in Loops(stack, "For") \cup Loops(stack, "ForIter") :
               Len(stack') < i => locals' = stack[i].scopes]_vars

\* a for loop of the block has been walked: the path in the iterated expression
\* did not resolve to the loop variable, the path in the body did, the path
\* after the loop did not, and no scope holds the loop variable
C25_Witness ==
    /\ panic = "" /\ Len(stack) = 2 /\ Top.kind = "Block" /\ locals = <<EmptyMap>>
    /\ \E s1 \in tree.sites, s2 \in tree.sites, s3 \in tree.sites :
          LET id == DefId(Local, s1.id - 1)
          IN /\ s1.at = "ForIter" /\ s2.at = "Block" /\ s3.at = "Block"
             /\ s1.q = "" /\ s2.q = "" /\ s3.q = ""
             /\ s1.id - 1 \in tree.binds
             /\ s1.id < s2.id /\ s2.id < s3.id
             /\ (s1.id \in DOMAIN resolutions => resolutions[s1.id] # id)
             /\ s2.id \in DOMAIN resolutions /\ resolutions[s2.id] = id
             /\ (s3.id \in DOMAIN resolutions => resolutions[s3.id] # id)

\* C26: a repeat expression opens exactly one scope, shared by its three parts:
\* it is pushed empty on entry; as long as the expression is walked the scopes
\* below it are those of the entry, and wherever the walk is at a statement or
\* at the condition of the expression itself there is exactly that one scope
\* above them; passing from the repeat body to the condition and from the
\* condition to the fixup body leaves the scopes as they are, so that a name
\* bound in the repeat body is visible in both; and after the expression the
\* scope stack is the one of the entry, with no name bound in either body.
C26_RepeatScoping ==
    [][panic' = "" =>
         /\ \A i \in Loops(stack', "Repeat") :
               /\ SubSeq(locals', 1, Len(stack'[i].scopes)) = stack'[i].scopes
               /\ Len(locals') > Len(stack'[i].scopes)
               /\ i = Len(stack') => Len(locals') = Len(stack'[i].scopes) + 1
               /\ i > Len(stack) => locals' = Append(locals, EmptyMap)
               /\ (i = Len(stack') /\ i = Len(stack) /\ stack[i].kind = "Repeat"
                     /\ stack[i].part # stack'[i].part) => locals' = locals
         /\ KeepsVisible(locals, locals', tree.binds, tree'.binds)
         /\ \A i \in Loops(stack, "Repeat") :
               Len(stack') < i => locals' = stack[i].scopes]_vars

\* a repeat expression of the block has been walked: a let statement of its repeat
\* body bound Foo, the path Foo in the condition and the path Foo in the fixup
\* body resolved to it, and after the expression no scope holds it
C26_Witness ==
    /\ panic = "" /\ Len(stack) = 2 /\ Top.kind = "Block" /\ locals = <<EmptyMap>>
    /\ \E n \in tree.lets, s1 \in tree.sites, s2 \in tree.sites :
          /\ s1.at = "cond" /\ s2.at = "fixup" /\ s1.q = "" /\ s2.q = ""
          /\ n < s1.id /\ s1.id < s2.id
          /\ s1.id \in DOMAIN resolutions /\ resolutions[s1.id] = DefId(Local, n)
          /\ s2.id \in DOMAIN resolutions /\ resolutions[s2.id] = DefId(Local, n)

----------------------------------------------------------------------------
(* Claims about the specializations of a callable (SpecCallable) *)

\* the scope that holds the names of the Bind leaves of a pattern and nothing else
ScopeOf(pat) ==
    IF BindLeaves(pat) = {} THEN EmptyMap
    ELSE [name \in {"Foo"} |-> DefId(Local, CHOOSE n \in BindLeaves(pat) : TRUE)]

\* C27: as long as a callable declaration is walked the outermost scope holds its
\* parameters and nothing else, so they are visible in every specialization,
\* and between the specializations it is the only scope; as long as a
\* specialization is walked the next scope holds the names of its input
\* pattern and nothing else, under the scope of its block: a path Foo at a
\* statement of a body that has bound nothing resolves to the name of the
\* specialization's pattern when it binds Foo and to the callable's parameter
\* otherwise; between the callables no scope is left, so no parameter of one
\* callable is visible in another.
C27_SpecScoping ==
    panic = "" =>
        /\ \A i \in DOMAIN stack :
              /\ stack[i].kind = "Callable" =>
                    /\ locals # <<>> /\ locals[1] = ScopeOf(stack[i].pat)
                    /\ i = Len(stack) => Len(locals) = 1
              /\ stack[i].kind = "SpecDecl" =>
                    Len(locals) >= 3 /\ locals[2] = ScopeOf(stack[i].pat)
        /\ (stack # <<>> /\ Top.kind = "Namespace") => locals = <<>>
        /\ (/\ Called /\ last.position = "term" /\ Unqualified
            /\ Len(stack) >= 3 /\ stack[2].kind = "Callable" /\ Top.kind = "Block"
            /\ locals[Len(locals)] = EmptyMap) =>
                LET pat == IF stack[3].kind = "SpecDecl" /\ BindLeaves(stack[3].pat) # {}
                           THEN stack[3].pat ELSE stack[2].pat
                IN Len(stack) = (IF stack[3].kind = "SpecDecl" THEN 4 ELSE 3) =>
                       ResolvedTo(ScopeOf(pat)["Foo"])

\* the walk is in the body of a specialization whose input pattern is ..., after a
\* specialization whose pattern binds Foo: the path Foo in the body of the first
\* resolved to the name of its pattern, the path Foo here to the callable's parameter
C27_Witness ==
    /\ panic = "" /\ Len(stack) = 4 /\ stack[3].kind = "SpecDecl" /\ stack[3].pat = PatElided
    /\ \E s1 \in tree.sites, s2 \in tree.sites, n \in tree.binds \ tree.lets :
          /\ s1.q = "" /\ s2.q = "" /\ s1.at = "Block" /\ s2.at = "Block"
          /\ n < s1.id /\ s1.id < s2.id
          /\ locals[1]["Foo"].node < n
          /\ s1.id \in DOMAIN resolutions /\ resolutions[s1.id] = DefId(Local, n)
          /\ s2.id \in DOMAIN resolutions /\ resolutions[s2.id] = locals[1]["Foo"]

----------------------------------------------------------------------------
(* Claims about the build of the symbol tables (SpecBuild) *)

\* the bindings of table that the packages added before the current one recorded
EarlierBindings(table, current) ==
    {<<ns, n>> \in (DOMAIN table) \X {"Foo"} :
        n \in DOMAIN table[ns] /\ table[ns][n].package # current}
Kept(table, table_, b) ==
    /\ b[1] \in DOMAIN table_ /\ b[2] \in DOMAIN table_[b[1]]
    /\ table_[b[1]][b[2]] = table[b[1]][b[2]]

\* C14: adding a further package only adds bindings: every (namespace, name)
\* binding recorded from the packages added before maps to the same DefId after
\* each step that adds items of the new package.
C14_MergeKeeps ==
    [][(Building /\ table_package' # Moved) =>
          /\ \A b \in EarlierBindings(terms, table_package') : Kept(terms, terms', b)
          /\ \A b \in EarlierBindings(tys, table_package') : Kept(tys, tys', b)]_vars

SameBinding(old, new, ns, n) ==
    Defines(old, ns, n) /\ Defines(new, ns, n) /\ old[ns][n] = new[ns][n]
\* the items visited so far that declare a callable or a type
Declarations == {d \in tree.items : d.item.kind \in {"Callable", "Ty"}}
DeclId(d) == d.item.name.id

\* C15: a local and an external declaration with the same node id get different
\* DefIds: the entry of the Resolution Map for the node of every local
\* declaration is DefId{Local, node} in every state, no step that adds items of
\* a linked package inserts or changes an entry, and every binding a step adds
\* to the tables carries the origin of the package being added.
C15_CrossPackageIdentity ==
    [][/\ (Building /\ table_package'.kind = "Extern") => resolutions' = resolutions
       /\ \A d \in {d \in tree'.items : d.item.kind \in {"Callable", "Ty"}} :
            d.package = Local =>
                /\ DeclId(d) \in DOMAIN resolutions'
                /\ resolutions'[DeclId(d)] = DefId(Local, DeclId(d))
       /\ (Building /\ table_package' # Moved) =>
            \A ts \in {<<tys, tys'>>, <<terms, terms'>>} :
                \A ns \in DOMAIN ts[2] :
                    (Defines(ts[2], ns, "Foo") /\ ~SameBinding(ts[1], ts[2], ns, "Foo")) =>
                        ts[2][ns]["Foo"].package = table_package']_vars

\* node 1 of the local package and node 1 of package 1 are both bound in the tables
C15_Witness ==
    /\ DefId(Local, 1) \in TableDefIds /\ DefId(Extern(1), 1) \in TableDefIds
    /\ \E d \in Declarations : d.package = Extern(1) /\ DeclId(d) = 1
    /\ 1 \in DOMAIN resolutions /\ resolutions[1] = DefId(Local, 1)

DeclDefId(d) == DefId(d.package, DeclId(d))
Internal(d) == d.item.visibility = {"Internal"}
\* the declarations the builder does not skip
Bindable(d) == d \in Declarations /\ (d.package = Local \/ ~Internal(d))
\* d2 is visited after d, in the same namespace
After(d2, d) ==
    /\ d2.namespace = d.namespace
    /\ \/ d2.package.id > d.package.id
       \/ d2.package = d.package /\ DeclId(d2) > DeclId(d)
\* d is the last declaration of its namespace that binds the name in the term table
LastInTerms(d) == Bindable(d) /\ ~\E d2 \in Declarations : Bindable(d2) /\ After(d2, d)
LastInTys(d) ==
    /\ Bindable(d) /\ d.item.kind = "Ty"
    /\ ~\E d2 \in Declarations : Bindable(d2) /\ d2.item.kind = "Ty" /\ After(d2, d)
ResolvedIds == {resolutions[n] : n \in DOMAIN resolutions}

\* C16: an internal item of a linked package is bound in neither the type table
\* nor the term table, and no path resolves to it; an internal item of the
\* local package is bound like any other: it has its entry in the Resolution
\* Map and, being the last declaration of the name in its namespace, the binding.
C16_VisibilityFilter ==
    \A d \in Declarations :
        IF d.package # Local /\ Internal(d)
        THEN DeclDefId(d) \notin TableDefIds /\ DeclDefId(d) \notin ResolvedIds
        ELSE Internal(d) =>
                /\ DeclId(d) \in DOMAIN resolutions /\ resolutions[DeclId(d)] = DeclDefId(d)
                /\ LastInTerms(d) =>
                     Defines(terms, d.namespace, "Foo") /\ terms[d.namespace]["Foo"] = DeclDefId(d)
                /\ LastInTys(d) =>
                     Defines(tys, d.namespace, "Foo") /\ tys[d.namespace]["Foo"] = DeclDefId(d)

\* the only declaration of Foo is an internal type of package 1, in a prelude
\* namespace: the unqualified path Foo is not found
C16_Witness ==
    /\ Called /\ Unqualified
    /\ \E d \in Declarations :
          /\ d.package = Extern(1) /\ Internal(d) /\ d.item.kind = "Ty" /\ d.namespace = Canon
    /\ errors = <<NotFound("Foo", last.path.span)>>

\* the path just resolved names the namespace of d: B.Foo for an item of B, and
\* Foo outside any namespace for an item of the prelude namespace
Names(d) ==
    /\ Called
    /\ IF d.namespace = "B" THEN LastQualifier = "B" ELSE Unqualified

\* C17: a type declaration is bound under its name in the type table and in the
\* term table of its namespace with one DefId, and its name resolves to it in
\* type position and in term position; a callable is bound in the term table
\* only; open items and error items add no binding: every binding of the type
\* table is a type declaration's, every binding of the term table a type or
\* callable declaration's.
C17_TypeBindsBoth ==
    /\ \A d \in Declarations :
          /\ LastInTys(d) =>
                /\ Defines(tys, d.namespace, "Foo") /\ tys[d.namespace]["Foo"] = DeclDefId(d)
                /\ (Names(d) /\ last.position = "ty") => ResolvedTo(DeclDefId(d))
          /\ (LastInTerms(d) /\ d.item.kind = "Ty") =>
                /\ Defines(terms, d.namespace, "Foo") /\ terms[d.namespace]["Foo"] = DeclDefId(d)
                /\ (Names(d) /\ last.position = "term") => ResolvedTo(DeclDefId(d))
    /\ \A ns \in DOMAIN tys :
          /\ DOMAIN tys[ns] = {"Foo"}
          /\ \E d \in Declarations :
                Bindable(d) /\ d.item.kind = "Ty" /\ d.namespace = ns /\ tys[ns]["Foo"] = DeclDefId(d)
    /\ \A ns \in DOMAIN terms :
          /\ DOMAIN terms[ns] = {"Foo"}
          /\ \E d \in Declarations :
                Bindable(d) /\ d.namespace = ns /\ terms[ns]["Foo"] = DeclDefId(d)

\* namespace B of the local package holds an open item and a type: the path
\* B.Foo in term position resolves to the type's DefId, which the type table holds too
C17_Witness ==
    /\ Called /\ last.position = "term" /\ LastQualifier = "B"
    /\ \E d \in Declarations, o \in tree.items :
          /\ d.item.kind = "Ty" /\ d.namespace = "B" /\ d.package = Local
          /\ o.item.kind = "Open" /\ o.namespace = "B"
          /\ ResolvedTo(DeclDefId(d))
          /\ tys["B"]["Foo"] = DeclDefId(d)

----------------------------------------------------------------------------
(* Claims about walking again with the same resolver (SpecRerun) *)

\* C19: after a complete walk, reset_errors and a second walk of the same
\* sequence of trees with the same resolver yield the Resolution Map and the
\* ordered error list of the first walk.
C19_RerunIdempotent ==
    (tree.pass = 2 /\ tree.left = <<>> /\ panic = "") =>
        /\ resolutions = tree.first.resolutions
        /\ errors = tree.first.errors

----------------------------------------------------------------------------
(* Claims about aliases (SpecAlias) *)

\* the open table without the opens under the other aliases
Bucket(table, alias) == [a \in DOMAIN table \cap {alias} |-> table[a]]

\* C29: the explicit-open tier consults only the opens under the path's qualifier,
\* the opens without alias when it has none: the call records what resolve
\* gives when the opens under every other alias are taken away.  An
\* unqualified path that no scope, neither the enclosing namespace, nor a
\* namespace opened without alias, nor the prelude, nor the unnamed namespace
\* binds is NotFound, whatever is opened under an alias; a qualified path
\* resolves, if it resolves, to a DefId of a namespace opened under its
\* qualifier or of the namespace named by it, never to one of a scope or of
\* the enclosing namespace, and is NotFound when neither binds its name,
\* whatever is opened without alias.
C29_AliasBuckets ==
    Called =>
        /\ \E result \in resolve(LastTable, Bucket(opens, LastQualifier), namespace,
                                 LastLocals, LastPath) : LastRecorded(result)
        /\ (/\ Unqualified /\ NoLocalMatch
            /\ ~Defines(LastTable, namespace, LastName)
            /\ OpenedIds(LastTable, "", LastName) = {}
            /\ PreludeIds(LastTable, LastName) = {}
            /\ ~Defines(LastTable, "", LastName)) =>
               FailedWith(NotFound(LastName, last.path.span))
        /\ ~Unqualified =>
              /\ last.path.id \in DOMAIN resolutions =>
                    resolutions[last.path.id] \in
                        OpenedIds(LastTable, LastQualifier, LastName)
                            \cup Lookup(LastTable, LastQualifier, LastName)
              /\ (/\ OpenedIds(LastTable, LastQualifier, LastName) = {}
                  /\ ~Defines(LastTable, LastQualifier, LastName)) =>
                     FailedWith(NotFound(LastName, last.path.span))

\* the unqualified path Foo, inside namespace A with `open C as B`, only C declaring
\* Foo, was not found
C29_Witness ==
    /\ Called /\ Unqualified /\ namespace = "A"
    /\ DOMAIN LastTable = {"C"}
    /\ "B" \in DOMAIN opens /\ "C" \in DOMAIN opens["B"]
    /\ FailedWith(NotFound(LastName, last.path.span))

\* the spans of the directives that open, under the alias, a namespace binding the name
OpenedSpans(table, alias, name) == {opens[alias][ns] : ns \in OpenedDefining(table, alias, name)}
Least(spans) == CHOOSE x \in spans : \A y \in spans : x <= y

\* C30: for a qualified path the namespace named by the qualifier is consulted
\* only when no namespace opened under the qualifier binds the name: when the
\* namespaces opened under it bind the name to exactly one DefId the path
\* resolves to it, also when a namespace named like the qualifier binds the
\* name; when they bind it to two DefIds or more the call records Ambiguous
\* with the two first of their directives and no entry; and when none binds
\* it, the path resolves to the DefId of the namespace named by the qualifier, if any.
C30_AliasBeforeGlobal ==
    (Called /\ ~Unqualified) =>
        LET ids == OpenedIds(LastTable, LastQualifier, LastName)
            spans == OpenedSpans(LastTable, LastQualifier, LastName)
        IN /\ Cardinality(ids) = 1 => \E id \in ids : ResolvedTo(id)
           /\ Cardinality(ids) >= 2 =>
                 FailedWith(Ambiguous(LastName, last.path.span, Least(spans),
                                      Least(spans \ {Least(spans)})))
           /\ (ids = {} /\ Defines(LastTable, LastQualifier, LastName)) =>
                 ResolvedTo(LastTable[LastQualifier][LastName])

\* the path B.Foo, with `open C as B` in effect and Foo declared in C and in the
\* namespace B, resolved to the Foo of C
C30_Witness ==
    /\ Called /\ ~Unqualified /\ LastQualifier = "B"
    /\ Defines(LastTable, "B", LastName) /\ Defines(LastTable, "C", LastName)
    /\ "B" \in DOMAIN opens /\ DOMAIN opens["B"] = {"C"}
    /\ ResolvedTo(LastTable["C"][LastName])
    /\ LastTable["C"][LastName] # LastTable["B"][LastName]

----------------------------------------------------------------------------
(* The parser primitives of parse/prim.rs, reading the tokens of a Scanner *)

\* most tokens of the source drawn for one parse
MaxTokens == 5

Span(lo, hi) == [lo |-> lo, hi |-> hi]
Token(kind, at) == [kind |-> kind, span |-> at]
\* NodeId::PLACEHOLDER: the id of a node not numbered yet, which no numbered node has
PLACEHOLDER == -1
\* the texts Keyword::from_str accepts, among the texts drawn
Keywords == {"let"}

\* the string made of the characters
RECURSIVE Text(_)
Text(chars) == IF chars = <<>> THEN "" ELSE chars[1] \o Text(Tail(chars))

\* what the lexer makes of a source text: its characters and the tokens cut out
\* of them, each lexeme written after the given number of blanks
RECURSIVE Lexed(_, _)
Lexed(lexemes, blanks) ==
    IF lexemes = <<>> THEN [input |-> <<>>, tokens |-> <<>>]
    ELSE LET n == Len(lexemes)
             before == Lexed(SubSeq(lexemes, 1, n - 1), SubSeq(blanks, 1, n - 1))
             lo == Len(before.input) + blanks[n]
             chars == lexemes[n].chars
         IN [input |-> before.input \o [i \in 1..blanks[n] |-> " "] \o chars,
             tokens |-> Append(before.tokens,
                               Token(lexemes[n].kind, Span(lo, lo + Len(chars))))]

\* the token the scanner shows once the lexer has no more
eof(offset) == Token("Eof", Span(offset, offset))
\* Scanner::new: the first token is peeked, nothing is consumed
Scanner_new(input, tokens) ==
    [input |-> input,
     tokens |-> IF tokens = <<>> THEN <<>> ELSE Tail(tokens),
     peek |-> IF tokens = <<>> THEN eof(Len(input)) ELSE Head(tokens),
     offset |-> 0]
\* Scanner::read: the text of the peeked token
read(s) == Text(SubSeq(s.input, s.peek.span.lo + 1, s.peek.span.hi))
\* Scanner::span: from the given offset to the end of the last token consumed
span(s, from) == Span(from, s.offset)
\* Scanner::advance
advance(s) ==
    IF s.peek.kind # "Eof"
    THEN [s EXCEPT !.offset = s.peek.span.hi,
                   !.peek = IF s.tokens = <<>> THEN eof(Len(s.input)) ELSE Head(s.tokens),
                   !.tokens = IF s.tokens = <<>> THEN <<>> ELSE Tail(s.tokens)]
    ELSE s

\* the parser primitives take the scanner and give it back with their result;
\* s.error(kind) is the error of that kind at the span of the peeked token
\* fn token
token(s, kind) ==
    IF s.peek.kind = kind
    THEN [s |-> advance(s), result |-> Ok(<<>>)]
    ELSE [s |-> s, result |-> Err([kind |-> "Token", what |-> kind, span |-> s.peek.span])]

\* fn ident
ident(s) ==
    IF s.peek.kind # "Ident" \/ read(s) \in Keywords
    THEN [s |-> s, result |-> Err([kind |-> "Rule", what |-> "identifier", span |-> s.peek.span])]
    ELSE [s |-> advance(s), result |-> Ok(Ident(PLACEHOLDER, read(s), s.peek.span))]

\* (mutant) only the first string is kept
join_first(strings, sep) == IF strings = <<>> THEN "" ELSE strings[1]

\* fn join: the first string, then the separator before each of the others
RECURSIVE join(_, _)
join(strings, sep) ==
    IF strings = <<>> THEN ""
    ELSE IF Len(strings) = 1 THEN strings[1]
    ELSE strings[1] \o sep \o join(Tail(strings), sep)

\* the while loop of fn path: an identifier is demanded after every dot consumed
RECURSIVE path_parts(_, _)
path_parts(s, parts) ==
    LET dot == token(s, "Dot")
    IN IF dot.result.tag = "Ok"
       THEN LET part == ident(dot.s)
            IN IF part.result.tag = "Err" THEN part
               ELSE path_parts(part.s, Append(parts, part.result.id))
       ELSE [s |-> dot.s, result |-> Ok(parts)]

\* fn path
path(s) ==
    LET lo == s.peek.span.lo
        first == ident(s)
    IN IF first.result.tag = "Err" THEN first
       ELSE LET looped == path_parts(first.s, <<first.result.id>>)
            IN IF looped.result.tag = "Err" THEN looped
               ELSE LET all == looped.result.id
                        name == all[Len(all)]
                        parts == SubSeq(all, 1, Len(all) - 1)
                        qualifier ==
                            IF parts # <<>>
                            THEN {Ident(PLACEHOLDER,
                                        join([i \in DOMAIN parts |-> parts[i].name], "."),
                                        Span(parts[1].span.lo, parts[Len(parts)].span.hi))}
                            ELSE {}
                    IN [s |-> looped.s,
                        result |-> Ok(Path(PLACEHOLDER, qualifier, name, span(looped.s, lo)))]

\* a source of the identifiers A and B, the word let and dots, each after no or
\* one blank, is lexed and a scanner made of it; nothing is resolved yet
InitParse ==
    /\ \E n \in 0..MaxTokens :
          \E lexemes \in [1..n -> {[kind |-> "Ident", chars |-> <<"A">>],
                                   [kind |-> "Ident", chars |-> <<"B">>],
                                   [kind |-> "Ident", chars |-> <<"l", "e", "t">>],
                                   [kind |-> "Dot", chars |-> <<".">>]}],
             blanks \in [1..n -> 0..1] :
              LET source == Lexed(lexemes, blanks)
              IN scanner = Scanner_new(source.input, source.tokens)
    /\ resolutions = EmptyMap /\ tys = EmptyMap /\ terms = EmptyMap
    /\ opens = EmptyMap /\ namespace = "" /\ locals = <<>> /\ errors = <<>> /\ panic = ""
    /\ stack = <<>>
    /\ nextId = 1
    /\ tree = [opens |-> <<>>, paths |-> {}, nodes |-> 0]
    /\ last = NoCall
    /\ table_package = Local

\* another rule of the parser consumes the peeked token
Advance ==
    /\ scanner # Dropped /\ scanner.peek.kind # "Eof"
    /\ scanner' = advance(scanner)
    /\ last' = NoCall
    /\ UNCHANGED <<resolutions, tys, terms, opens, namespace, locals, errors, panic,
                   stack, nextId, tree, table_package>>

\* path is called where the scanner stands
CallPath ==
    /\ scanner # Dropped
    /\ LET parsed == path(scanner)
       IN /\ scanner' = parsed.s
          /\ last' = [position |-> "path", from |-> scanner, result |-> parsed.result]
    /\ UNCHANGED <<resolutions, tys, terms, opens, namespace, locals, errors, panic,
                   stack, nextId, tree, table_package>>

NextParse == Advance \/ CallPath

SpecParse == InitParse /\ [][NextParse]_vars

----------------------------------------------------------------------------
(* Claims about the path parser (SpecParse) *)

PathCalled == last.position = "path"
\* the k-th token the call had before it, the end of the source past the last one
Ahead(k) ==
    LET all == <<last.from.peek>> \o last.from.tokens
    IN IF k <= Len(all) THEN all[k] ELSE eof(Len(last.from.input))
TextAt(k) == Text(SubSeq(last.from.input, Ahead(k).span.lo + 1, Ahead(k).span.hi))
IdentifierAt(k) == Ahead(k).kind = "Ident" /\ TextAt(k) \notin Keywords
DotAt(k) == Ahead(k).kind = "Dot"
\* n identifiers separated by dots lie ahead
Dotted(n) ==
    /\ \A j \in 1..n : IdentifierAt(2 * j - 1)
    /\ \A j \in 1..(n - 1) : DotAt(2 * j)
\* the texts of the first n of them, joined by dots
RECURSIVE Qualified(_)
Qualified(n) == IF n = 1 THEN TextAt(1) ELSE Qualified(n - 1) \o "." \o TextAt(2 * n - 1)
Parsed == last.result.id

\* C31: path, called before n >= 1 identifiers separated by dots and followed by
\* no dot, returns a path whose name is the last identifier (its text and its
\* span), whose qualifier is absent exactly when n = 1 and is otherwise one
\* identifier with the texts of the n - 1 first joined by ".", from the start of
\* the first to the end of the (n - 1)-th, and whose span runs from the start of
\* the first identifier to the end of the last, and it leaves the scanner at the
\* token that follows; called before a dot that no identifier follows, or before
\* a token that is no identifier, it returns an error.
C31_PathSplit ==
    PathCalled =>
        /\ ~IdentifierAt(1) => last.result.tag = "Err"
        /\ \A n \in 1..MaxTokens :
              /\ (Dotted(n) /\ DotAt(2 * n) /\ ~IdentifierAt(2 * n + 1)) =>
                     last.result.tag = "Err"
              /\ (Dotted(n) /\ ~DotAt(2 * n)) =>
                    /\ last.result.tag = "Ok"
                    /\ Parsed.name.name = TextAt(2 * n - 1)
                    /\ Parsed.name.span = Ahead(2 * n - 1).span
                    /\ (Parsed.namespace = {}) <=> (n = 1)
                    /\ n > 1 =>
                          Parsed.namespace =
                              {Ident(PLACEHOLDER, Qualified(n - 1),
                                     Span(Ahead(1).span.lo, Ahead(2 * n - 3).span.hi))}
                    /\ Parsed.span = Span(Ahead(1).span.lo, Ahead(2 * n - 1).span.hi)
                    /\ scanner.peek = Ahead(2 * n)

\* the path `A. B .A`, written with blanks, was split into the qualifier A.B and the name A
C31_Witness ==
    /\ PathCalled /\ last.result.tag = "Ok"
    /\ \E q \in Parsed.namespace : q.name = "A.B" /\ q.span.hi - q.span.lo > 3
    /\ Parsed.name.name = "A"
    /\ Parsed.span.hi - Parsed.span.lo > 6

====
